---- MODULE Spec2Model ----
(***************************************************************************)
(* Model of the slideshow presentation engine:                             *)
(*   core/transition_canvas.py  TransitionCanvas  (slide timeline,         *)
(*                              countdown, overlay alphas)                 *)
(*   core/slideshow_window.py   SlideShowWindow   (deck, Qt timers,        *)
(*                              countdown fade-out controller)             *)
(*   core/audio_player.py       AudioPlayer       (volume, play/stop)      *)
(*                                                                         *)
(* Objects are records; a method is an operator from the object (and its   *)
(* arguments, and the clock reading it takes) to the object after the      *)
(* call.  Timestamps are integers in milliseconds (time.monotonic() and    *)
(* time.time() are read from one clock `now`); Python floats that are      *)
(* ratios (progress, alphas) are exact fractions <<num, den>> in lowest    *)
(* terms.  Qt runs every handler to completion on the GUI thread, so one   *)
(* handler is one action.                                                  *)
(***************************************************************************)
EXTENDS Integers, Sequences, FiniteSets, TLC

VARIABLES w, now, fired, fade_volume, timer_cmd, cmds

vars == <<w, now, fired, fade_volume, timer_cmd, cmds>>

----------------------------------------------------------------------------
(* Bounds of the model *)

\* the clock advances in steps of TickMs up to MaxNow
TickMs == 500
MaxNow == 7000
\* number of commands (key presses, accepted dialogs) the user issues
MaxCmds == 4
\* number of commands, F5 included, in the runs checked for liveness
MaxLiveCmds == 3
\* number of image files in the folder (file f has the f-th letter as its name)
NumFiles == 2

----------------------------------------------------------------------------
(* Program constants *)

FADEOUT_TRIGGER_SECONDS == 1
FADEOUT_DURATION_MS == 3000
FADEOUT_POST_ZERO_HOLD_MS == 2000

None == 0
NoVolume == 0 - 1

\* models/settings.py names; the arrows of "L→R" and "A→Z" are written ->
FADE == "Fade (Opacity)"
SWEEP == "Sweep (Wipe L->R)"
KB_NONE == "None"
ZOOM_IN == "Zoom In"
ZOOM_OUT == "Zoom Out"
ALTERNATE == "Alternate (In/Out)"
RANDOM == "Random"
NAME == "Name (A->Z)"

----------------------------------------------------------------------------
(* Arithmetic helpers: Python's max/min, round (half to even), and exact   *)
(* fractions for float ratios                                              *)

Max(a, b) == IF a >= b THEN a ELSE b
Min(a, b) == IF a <= b THEN a ELSE b

\* greatest common divisor (Euclid)
Gcd[a \in Nat, b \in Nat] == IF b = 0 THEN a ELSE Gcd[b, a % b]

\* the fraction n/d (n >= 0, d > 0) in lowest terms
Frac(n, d) == LET g == Gcd[n, d] IN <<n \div g, d \div g>>
Zero == <<0, 1>>
One == <<1, 1>>
FLeq(a, b) == a[1] * b[2] <= b[1] * a[2]
FLt(a, b) == a[1] * b[2] < b[1] * a[2]
\* 1.0 - a
FCompl(a) == Frac(a[2] - a[1], a[2])
FAdd(a, b) == Frac(a[1] * b[2] + b[1] * a[2], a[2] * b[2])

\* max(0.0, min(1.0, n / d)) for d > 0
Clamp01(n, d) == IF n <= 0 THEN Zero ELSE IF n >= d THEN One ELSE Frac(n, d)

\* Python 3 round(n / d) for d > 0: nearest integer, ties to the even one
PyRound(n, d) ==
    LET q == n \div d
        r == n - q * d
    IN  IF 2 * r < d THEN q
        ELSE IF 2 * r > d THEN q + 1
        ELSE IF q % 2 = 0 THEN q ELSE q + 1

\* AudioPlayer.set_volume_0_100: v = max(0, min(100, int(v)))
set_volume_0_100(a, v) == [a EXCEPT !.volume = Max(0, Min(100, v))]

----------------------------------------------------------------------------
(* QTimer, for the hold timer whose interval spans several clock steps: a  *)
(* running timer is due `interval` ms after it was started or last fired;  *)
(* a stopped one has no deadline (remainingTime() = -1).  The 16 ms and    *)
(* 33 ms timers are finer than the clock and are kept as an active flag.   *)

NoDeadline == 0 - 1
QTimerInit == [active |-> FALSE, due |-> NoDeadline, interval |-> 0]
\* QTimer.start(msec)
qt_start(tm, msec, t) == [active |-> TRUE, due |-> t + msec, interval |-> msec]
\* QTimer.stop()
qt_stop(tm) == [tm EXCEPT !.active = FALSE, !.due = NoDeadline]
\* a repeating timer after its timeout handler returned
qt_rearm(tm, t) == IF tm.active /\ tm.due <= t
                   THEN [tm EXCEPT !.due = @ + tm.interval] ELSE tm

----------------------------------------------------------------------------
(* TransitionCanvas *)

\* TransitionCanvas.__init__ (constructed at clock reading t)
CanvasInit(t) ==
    [ current_src |-> None, next_src |-> None,
      transition_type |-> FADE, transition_ms |-> 600, progress |-> One,
      hold_ms |-> 3000, kenburns |-> KB_NONE, ken_strength |-> 10,
      current_start |-> t, next_start |-> t,
      ken_dir_cur |-> 1, ken_dir_next |-> 1,
      timer_active |-> FALSE, timer_end_ts |-> 0,
      subtitle_cues |-> <<>>, subtitle_time_ms |-> 0,
      subtitle_fade_in_ms |-> 250, subtitle_fade_out_ms |-> 250,
      subtitle_alpha_mul |-> One, black_alpha |-> Zero ]

\* TransitionCanvas.set_subtitles (cue list and fade windows; fonts and the
\* background panel are left out)
set_subtitles(c, cues, fade_in_ms, fade_out_ms) ==
    [c EXCEPT !.subtitle_cues = cues,
              !.subtitle_fade_in_ms = Max(0, fade_in_ms),
              !.subtitle_fade_out_ms = Max(0, fade_out_ms)]

\* a position update that never moves the stored clock backwards
set_subtitle_time_ms_monotone(c, t_ms) ==
    [c EXCEPT !.subtitle_time_ms = Max(@, Max(0, t_ms))]

\* TransitionCanvas.set_subtitle_time_ms
set_subtitle_time_ms(c, t_ms) == [c EXCEPT !.subtitle_time_ms = Max(0, t_ms)]

\* core/subtitles.py load_srt: the cues of the file (here the blocks in file
\* order, already parsed), sorted by start_ms; list.sort is stable
load_srt(blocks) ==
    LET n == Len(blocks)
        \* position of block i in the sorted list
        rank(i) == Cardinality({ j \in 1..n :
                        \/ blocks[j].start_ms < blocks[i].start_ms
                        \/ blocks[j].start_ms = blocks[i].start_ms /\ j <= i })
    IN  [k \in 1..n |-> blocks[CHOOSE i \in 1..n : rank(i) = k]]

\* find_cue's None, as a cue that contains no position
NoCue == [start_ms |-> 0 - 1, end_ms |-> 0 - 2, text |-> "None"]

\* find_cue with a scan that prefers the latest start
find_cue_last(cues, t_ms) ==
    LET hits == { i \in 1..Len(cues) :
                    cues[i].start_ms <= t_ms /\ t_ms <= cues[i].end_ms }
    IN  IF hits = {} THEN NoCue
        ELSE cues[CHOOSE i \in hits : \A j \in hits : j <= i]

\* core/subtitles.py find_cue: linear scan, the first cue that contains t_ms
find_cue(cues, t_ms) ==
    LET scan[i \in 1..(Len(cues) + 1)] ==
            IF i > Len(cues) THEN NoCue
            ELSE IF cues[i].start_ms <= t_ms /\ t_ms <= cues[i].end_ms THEN cues[i]
            ELSE scan[i + 1]
    IN  scan[1]

\* max(0.0, n / d) for d > 0
FMax0(n, d) == IF n <= 0 THEN Zero ELSE Frac(n, d)
FMin(a, b) == IF FLeq(a, b) THEN a ELSE b
FMax(a, b) == IF FLeq(a, b) THEN b ELSE a

\* the alpha of a cue whose fade windows are not capped by its duration
subtitle_alpha_uncapped(c, cue) ==
    LET fade_in_ms == c.subtitle_fade_in_ms
        fade_out_ms == c.subtitle_fade_out_ms
        t == c.subtitle_time_ms
        a1 == IF fade_in_ms > 0 /\ t < cue.start_ms + fade_in_ms
              THEN FMin(One, FMax0(t - cue.start_ms, fade_in_ms)) ELSE One
        a2 == IF fade_out_ms > 0 /\ t > cue.end_ms - fade_out_ms
              THEN FMin(a1, FMax0(cue.end_ms - t, fade_out_ms)) ELSE a1
    IN  FMax(Zero, FMin(One, a2))

\* TransitionCanvas._subtitle_alpha_for_cue
subtitle_alpha_for_cue(c, cue) ==
    LET duration == Max(1, cue.end_ms - cue.start_ms)
        fade_in_ms == Min(c.subtitle_fade_in_ms, duration \div 2)
        fade_out_ms == Min(c.subtitle_fade_out_ms, duration \div 2)
        t == c.subtitle_time_ms
        a1 == IF fade_in_ms > 0 /\ t < cue.start_ms + fade_in_ms
              THEN FMin(One, FMax0(t - cue.start_ms, fade_in_ms)) ELSE One
        a2 == IF fade_out_ms > 0 /\ t > cue.end_ms - fade_out_ms
              THEN FMin(a1, FMax0(cue.end_ms - t, fade_out_ms)) ELSE a1
    IN  FMax(Zero, FMin(One, a2))

\* TransitionCanvas.set_effects (ken_strength kept in percent)
set_effects(c, transition_type, transition_ms, hold_ms, kenburns, ken_strength_percent) ==
    [c EXCEPT !.transition_type = transition_type,
              !.transition_ms = Max(0, transition_ms),
              !.hold_ms = Max(1, hold_ms),
              !.kenburns = kenburns,
              !.ken_strength = Max(0, ken_strength_percent)]

\* start_timer without the total_seconds <= 0 branch
start_timer_unchecked(c, total_seconds, t) ==
    [c EXCEPT !.timer_active = TRUE,
              !.timer_end_ts = t + total_seconds * 1000]

\* TransitionCanvas.start_timer
start_timer(c, total_seconds, t) ==
    LET total == Max(0, total_seconds)
    IN  IF total <= 0
        THEN [c EXCEPT !.timer_active = FALSE]
        ELSE [c EXCEPT !.timer_active = TRUE,
                       !.timer_end_ts = t + total * 1000]

\* TransitionCanvas.stop_timer
stop_timer(c) == [c EXCEPT !.timer_active = FALSE]

\* timer_remaining_seconds with int() in place of int(round())
timer_remaining_truncated(c, t) ==
    IF ~c.timer_active THEN 0
    ELSE Max(0, (c.timer_end_ts - t) \div 1000)

\* timer_remaining_seconds without the max(0, ...)
timer_remaining_signed(c, t) ==
    IF ~c.timer_active THEN 0
    ELSE PyRound(c.timer_end_ts - t, 1000)

\* TransitionCanvas.timer_remaining_seconds
timer_remaining_seconds(c, t) ==
    IF ~c.timer_active THEN 0
    ELSE Max(0, PyRound(c.timer_end_ts - t, 1000))

\* TransitionCanvas.clear
clear(c) == [c EXCEPT !.current_src = None, !.next_src = None, !.progress = One]

\* TransitionCanvas.set_current
set_current(c, pix, t) ==
    [c EXCEPT !.current_src = pix,
              !.next_src = None,
              !.ken_dir_cur = IF c.kenburns = ALTERNATE THEN 1 ELSE @,
              !.ken_dir_next = IF c.kenburns = ALTERNATE THEN 0 - 1 ELSE @,
              !.progress = One,
              !.current_start = t]

\* start_transition that stamps the current slide's start as well
start_transition_restamps(c, next_pix, t) ==
    IF c.current_src = None
    THEN set_current(c, next_pix, t)
    ELSE [c EXCEPT !.ken_dir_next = IF c.kenburns = ALTERNATE
                                    THEN 0 - c.ken_dir_cur ELSE c.ken_dir_cur,
                   !.next_src = next_pix,
                   !.next_start = t,
                   !.current_start = t,
                   !.progress = Zero]

\* TransitionCanvas.start_transition
start_transition(c, next_pix, t) ==
    IF c.current_src = None
    THEN set_current(c, next_pix, t)
    ELSE [c EXCEPT !.ken_dir_next = IF c.kenburns = ALTERNATE
                                    THEN 0 - c.ken_dir_cur ELSE c.ken_dir_cur,
                   !.next_src = next_pix,
                   !.next_start = t,
                   !.progress = Zero]

\* set_progress that stamps next_start at every call that reaches 1
set_progress_restamps(c, pn, pd, t) ==
    LET prog == Clamp01(pn, pd)
    IN  IF prog = One /\ c.next_src # None
        THEN [c EXCEPT !.current_src = c.next_src,
                       !.next_src = None,
                       !.progress = One,
                       !.current_start = c.next_start,
                       !.ken_dir_cur = c.ken_dir_next,
                       !.next_start = t]
        ELSE IF prog = One
        THEN [c EXCEPT !.progress = prog, !.next_start = t]
        ELSE [c EXCEPT !.progress = prog]

\* set_progress whose commit restarts the zoom of the committed slide
set_progress_restarts_zoom(c, pn, pd, t) ==
    LET prog == Clamp01(pn, pd)
    IN  IF prog = One /\ c.next_src # None
        THEN [c EXCEPT !.current_src = c.next_src,
                       !.next_src = None,
                       !.progress = One,
                       !.current_start = t,
                       !.ken_dir_cur = c.ken_dir_next,
                       !.next_start = t]
        ELSE [c EXCEPT !.progress = prog]

\* set_progress whose commit leaves next_src in place
set_progress_keeps_next(c, pn, pd, t) ==
    LET prog == Clamp01(pn, pd)
    IN  IF prog = One /\ c.next_src # None
        THEN [c EXCEPT !.current_src = c.next_src,
                       !.progress = One,
                       !.current_start = c.next_start,
                       !.ken_dir_cur = c.ken_dir_next,
                       !.next_start = t]
        ELSE [c EXCEPT !.progress = prog]

\* TransitionCanvas.set_progress, called with p = pn / pd (pd > 0)
set_progress(c, pn, pd, t) ==
    LET prog == Clamp01(pn, pd)
    IN  IF prog = One /\ c.next_src # None
        THEN [c EXCEPT !.current_src = c.next_src,
                       !.next_src = None,
                       !.progress = One,
                       !.current_start = c.next_start,
                       !.ken_dir_cur = c.ken_dir_next,
                       !.next_start = t]
        ELSE [c EXCEPT !.progress = prog]

\* TransitionCanvas._ken_duration_ms
ken_duration_ms(c) == Max(1, c.hold_ms) + 2 * Max(0, c.transition_ms)

\* 1.0 + strength * tt, strength being ken_strength percent / 100
ken_zoom(strength_percent, tt) ==
    Frac(100 * tt[2] + strength_percent * tt[1], 100 * tt[2])

\* _ken_scale that zooms every direction of the alternate mode inwards
ken_scale_one_way(c, start_t, t, direction) ==
    IF c.kenburns = KB_NONE \/ c.ken_strength <= 0 THEN One
    ELSE IF c.kenburns = ZOOM_OUT
    THEN ken_zoom(c.ken_strength, FCompl(Clamp01(t - start_t, ken_duration_ms(c))))
    ELSE ken_zoom(c.ken_strength, Clamp01(t - start_t, ken_duration_ms(c)))

\* TransitionCanvas._ken_scale(start_t, now = t, direction); timestamps in ms
ken_scale(c, start_t, t, direction) ==
    IF c.kenburns = KB_NONE \/ c.ken_strength <= 0 THEN One
    ELSE
    LET tt == Clamp01(t - start_t, ken_duration_ms(c))
    IN  IF c.kenburns = ZOOM_IN \/ (c.kenburns = ALTERNATE /\ direction > 0)
        THEN ken_zoom(c.ken_strength, tt)
        ELSE IF c.kenburns = ZOOM_OUT \/ (c.kenburns = ALTERNATE /\ direction < 0)
        THEN ken_zoom(c.ken_strength, FCompl(tt))
        ELSE One

\* clip_w = None of _draw_cover
NoClip == 0 - 1

\* TransitionCanvas._draw_cover: the draw operation it issues for a cover
draw_cover(src, alpha, scale, clip_w) ==
    [ src |-> src,
      alpha |-> IF FLeq(alpha, Zero) THEN Zero ELSE IF FLeq(One, alpha) THEN One ELSE alpha,
      scale |-> scale, clip_w |-> clip_w ]

\* the sweep clip measured from the right edge
sweep_clip_w_reversed(vw, p) == vw - (vw * p[1]) \div p[2]

\* clip_w = int(self.width() * p) of the sweep branch
sweep_clip_w(vw, p) == (vw * p[1]) \div p[2]

\* the fade branch drawing next below current
fade_layers_swapped(c, cur_scale, nxt_scale) ==
    << draw_cover(c.next_src, c.progress, nxt_scale, NoClip),
       draw_cover(c.current_src, FCompl(c.progress), cur_scale, NoClip) >>

\* paintEvent, transition_type == FADE
fade_layers(c, cur_scale, nxt_scale) ==
    << draw_cover(c.current_src, FCompl(c.progress), cur_scale, NoClip),
       draw_cover(c.next_src, c.progress, nxt_scale, NoClip) >>

\* paintEvent, transition_type == SWEEP
sweep_layers(c, cur_scale, nxt_scale, vw) ==
    << draw_cover(c.current_src, One, cur_scale, NoClip),
       draw_cover(c.next_src, One, nxt_scale, sweep_clip_w(vw, c.progress)) >>

\* paintEvent, any other transition_type
other_layers(c, cur_scale, nxt_scale) ==
    << draw_cover(c.current_src, One, cur_scale, NoClip),
       draw_cover(c.next_src, c.progress, nxt_scale, NoClip) >>

\* TransitionCanvas.paintEvent, the image layers: the _draw_cover calls made
\* for a viewport vw wide at clock reading t.  A cover exists for a source
\* whenever the viewport is not empty (_refresh_cache).
paint_covers(c, t, vw) ==
    IF c.current_src = None \/ vw <= 0 THEN <<>>
    ELSE
    LET cur_scale == ken_scale(c, c.current_start, t, c.ken_dir_cur)
        nxt_scale == ken_scale(c, c.next_start, t, c.ken_dir_next)
    IN  IF c.next_src = None
        THEN << draw_cover(c.current_src, One, cur_scale, NoClip) >>
        ELSE IF c.transition_type = FADE
        THEN fade_layers(c, cur_scale, nxt_scale)
        ELSE IF c.transition_type = SWEEP
        THEN sweep_layers(c, cur_scale, nxt_scale, vw)
        ELSE other_layers(c, cur_scale, nxt_scale)

\* TransitionCanvas._draw_timer_overlay: nothing without an active countdown
\* or on an empty viewport, else the pixmap of the remaining time's text
draw_timer_overlay(c, t, vw) ==
    IF ~c.timer_active \/ vw <= 0 THEN <<>>
    ELSE << <<"timer", timer_remaining_seconds(c, t)>> >>

\* TransitionCanvas._draw_subtitle_overlay: nothing without cues, else the
\* background panel and, under it being found, the cue's text at opacity
\* 0.95 * alpha of the cue * subtitle_alpha_mul
draw_subtitle_overlay(c) ==
    IF c.subtitle_cues = <<>> THEN <<>>
    ELSE
    LET cue == find_cue(c.subtitle_cues, c.subtitle_time_ms)
        a == subtitle_alpha_for_cue(c, cue)
        m == c.subtitle_alpha_mul
    IN  << <<"subtitle", "background">> >>
        \o (IF cue = NoCue THEN <<>>
            ELSE << <<"subtitle", Frac(19 * a[1] * m[1], 20 * a[2] * m[2])>> >>)

\* paintEvent, the closing fillRect in black at opacity black_alpha
dim_layer(c) ==
    IF FLt(Zero, c.black_alpha) THEN << <<"dim", c.black_alpha>> >> ELSE <<>>

\* the image layers of a frame as draw operations
cover_ops(c, t, vw) ==
    LET layers == paint_covers(c, t, vw)
    IN  [k \in 1..Len(layers) |-> <<"cover", layers[k]>>]

\* paintEvent whose path without a current image dims before the overlays
paintEvent_dims_empty_first(c, t, vw) ==
    IF c.current_src = None \/ vw <= 0
    THEN dim_layer(c) \o draw_timer_overlay(c, t, vw) \o draw_subtitle_overlay(c)
    ELSE cover_ops(c, t, vw) \o draw_timer_overlay(c, t, vw)
            \o draw_subtitle_overlay(c) \o dim_layer(c)

\* TransitionCanvas.paintEvent: the draw operations of one frame, in order,
\* after the black background fill
paintEvent(c, t, vw) ==
    IF c.current_src = None \/ vw <= 0
    THEN draw_timer_overlay(c, t, vw) \o draw_subtitle_overlay(c) \o dim_layer(c)
    ELSE IF c.next_src = None
    THEN cover_ops(c, t, vw) \o draw_timer_overlay(c, t, vw)
            \o draw_subtitle_overlay(c) \o dim_layer(c)
    ELSE cover_ops(c, t, vw) \o draw_timer_overlay(c, t, vw)
            \o draw_subtitle_overlay(c) \o dim_layer(c)

----------------------------------------------------------------------------
(* Settings the main window can hand to the slideshow (AppSettings)        *)

\* Image files are numbered 1..NumFiles.  A file name is a letter, written
\* as its position in the alphabet, plus 32 when it is a lower-case letter:
\* file 1 is "a", file 2 is "B", file 3 is "c", ...
FileName(f) == IF f % 2 = 1 THEN f + 32 ELSE f

\* a file with an image suffix whose contents QPixmap cannot decode; its
\* name begins with a character that sorts before the letters
BadFile == 28
Undecodable == {BadFile}

\* p.name compared as it is written
name_key_case_sensitive(f) == FileName(f)

\* the sort key of refresh_files: p.name.lower()
name_key(f) == IF FileName(f) <= 26 THEN FileName(f) + 32 ELSE FileName(f)

\* list_images for the folder that holds the NumFiles image files; iterdir
\* yields them in an order of its own, here last to first
ListImages == [i \in 1..NumFiles |-> NumFiles + 1 - i]

\* files = list_images(folder); files.sort(key = name.lower()): a stable sort,
\* the file at index i going to the place that counts the files before it
sorted_images(folder) ==
    LET Before(j, i) == \/ name_key(folder[j]) < name_key(folder[i])
                        \/ name_key(folder[j]) = name_key(folder[i]) /\ j < i
        Place(i) == 1 + Cardinality({j \in 1..Len(folder) : Before(j, i)})
    IN  [k \in 1..Len(folder) |-> folder[CHOOSE i \in 1..Len(folder) : Place(i) = k]]

DefaultSettings ==
    [ transition_type |-> FADE, transition_ms |-> 1000, hold_ms |-> 1000,
      kenburns |-> KB_NONE, kenburns_strength_percent |-> 10, order |-> NAME,
      timer_start_seconds |-> 2, timer_fadeout_trigger_seconds |-> 1,
      music_files |-> <<1>>, music_volume |-> 80,
      image_folder |-> ListImages,
      shuffle_seed |-> 0,
      subtitle_file |-> <<>>,
      subtitle_fade_in_ms |-> 250, subtitle_fade_out_ms |-> 250 ]

SettingsChoices ==
    { DefaultSettings,
      [DefaultSettings EXCEPT !.timer_start_seconds = 0,
                              !.timer_fadeout_trigger_seconds = 2,
                              !.music_volume = 50,
                              !.transition_ms = 0],
      [DefaultSettings EXCEPT !.timer_start_seconds = 0 - 5,
                              !.timer_fadeout_trigger_seconds = 0] }

\* the sorted listing of the image folder (list_images + sort in refresh_files)
FolderFiles == sorted_images(ListImages)

\* the orders random.shuffle can leave a list in
Perms(seq) ==
    { p \in [1..Len(seq) -> {seq[i] : i \in 1..Len(seq)}] :
        \A x \in {seq[i] : i \in 1..Len(seq)} : \E j \in 1..Len(seq) : p[j] = x }

----------------------------------------------------------------------------
(* SlideShowWindow *)

\* SlideShowWindow._fadeout_trigger_seconds
fadeout_trigger_seconds(win) ==
    Max(0, win.settings.timer_fadeout_trigger_seconds)

\* _reset_fadeout_state that leaves the canvas's dim and subtitle multiplier
reset_fadeout_state_keeps_dim(win) ==
    [win EXCEPT !.timer_fadeout_started = FALSE,
                !.fadeout_timer = FALSE,
                !.fadeout_start_ts = 0,
                !.fadeout_from_volume = win.settings.music_volume,
                !.audio = set_volume_0_100(@, win.settings.music_volume)]

\* SlideShowWindow._reset_fadeout_state
reset_fadeout_state(win) ==
    [win EXCEPT !.timer_fadeout_started = FALSE,
                !.fadeout_timer = FALSE,
                !.fadeout_start_ts = 0,
                !.fadeout_from_volume = win.settings.music_volume,
                !.canvas.black_alpha = Zero,
                !.canvas.subtitle_alpha_mul = One,
                !.audio = set_volume_0_100(@, win.settings.music_volume)]

\* SlideShowWindow._start_timer_fadeout
start_timer_fadeout(win, t) ==
    IF win.timer_fadeout_started \/ ~win.running
    THEN win
    ELSE [win EXCEPT !.timer_fadeout_started = TRUE,
                     !.fadeout_start_ts = t,
                     !.fadeout_from_volume = win.settings.music_volume,
                     !.fadeout_timer = TRUE]

\* _tick_overlay that ends the presentation as soon as remaining reaches 0
tick_overlay_stops_at_zero(win, t) ==
    IF win.canvas.timer_active /\ timer_remaining_seconds(win.canvas, t) = 0
    THEN [win EXCEPT !.running = FALSE, !.visible = FALSE,
                     !.render_timer = FALSE, !.fadeout_timer = FALSE,
                     !.anim_timer = FALSE,
                     !.hold_timer = qt_stop(@),
                     !.timer_fadeout_started = FALSE,
                     !.canvas.timer_active = FALSE,
                     !.canvas.black_alpha = Zero,
                     !.canvas.subtitle_alpha_mul = One]
    ELSE IF win.canvas.timer_active
            /\ timer_remaining_seconds(win.canvas, t) <= fadeout_trigger_seconds(win)
    THEN start_timer_fadeout(win, t)
    ELSE win

\* SlideShowWindow._tick_overlay
tick_overlay(win, t) ==
    IF win.canvas.timer_active
       /\ timer_remaining_seconds(win.canvas, t) <= fadeout_trigger_seconds(win)
    THEN start_timer_fadeout(win, t)
    ELSE win

\* the generator of random.Random(seed): a fixed sequence of numbers for each
\* seed (a linear congruential sequence stands for the Mersenne Twister's)
rng_next(x) == (75 * x + 74) % 65537

\* random.Random(seed).shuffle(files): for i from the last index down to the
\* second, the item at i changes places with the item at randbelow(i + 1)
seeded_shuffle(seed, files) ==
    LET n == Len(files)
        swaps[k \in 0..n] ==
            IF k = 0 THEN <<files, seed % 65537>>
            ELSE LET prev == swaps[k - 1]
                     x == rng_next(prev[2])
                     i == n - k + 1
                     j == (x % i) + 1
                 IN  <<[prev[1] EXCEPT ![i] = prev[1][j], ![j] = prev[1][i]], x>>
    IN  IF n <= 1 THEN files ELSE swaps[n - 1][1]

\* _rebuild_deck that shuffles with the global generator whatever the seed
rebuild_deck_ignores_seed(win, shuf) ==
    [win EXCEPT !.deck = IF win.settings.order = RANDOM THEN shuf ELSE win.all_files]

\* SlideShowWindow._rebuild_deck; shuf is the order the global random.shuffle
\* produces
rebuild_deck(win, shuf) ==
    [win EXCEPT !.deck = IF win.settings.order = RANDOM
                         THEN IF win.settings.shuffle_seed > 0
                              THEN seeded_shuffle(win.settings.shuffle_seed, win.all_files)
                              ELSE shuf
                         ELSE win.all_files]

\* SlideShowWindow.refresh_files
refresh_files(win, force, shuf) ==
    IF force \/ sorted_images(win.settings.image_folder) # win.all_files
    THEN rebuild_deck([win EXCEPT !.all_files = sorted_images(win.settings.image_folder)],
                      shuf)
    ELSE win

\* _pop_next_pix that leaves the first item on a deck it has just rebuilt
pop_next_win_keeps_rebuilt(win, shuf) ==
    LET w1 == refresh_files(win, FALSE, shuf)
    IN  IF w1.all_files = <<>> THEN w1
        ELSE IF w1.deck = <<>> THEN rebuild_deck(w1, shuf)
        ELSE [w1 EXCEPT !.deck = Tail(@)]

\* _pop_next_pix that leaves an item it could not decode on the deck
pop_next_win_keeps_bad(win, shuf) ==
    LET w1 == refresh_files(win, FALSE, shuf)
        w2 == IF w1.deck = <<>> THEN rebuild_deck(w1, shuf) ELSE w1
    IN  IF w1.all_files = <<>> THEN w1
        ELSE IF Head(w2.deck) \in Undecodable THEN w2
        ELSE [w2 EXCEPT !.deck = Tail(@)]

\* SlideShowWindow._pop_next_pix: the window after the call
pop_next_win(win, shuf) ==
    LET w1 == refresh_files(win, FALSE, shuf)
        w2 == IF w1.deck = <<>> THEN rebuild_deck(w1, shuf) ELSE w1
    IN  IF w1.all_files = <<>> THEN w1
        ELSE [w2 EXCEPT !.deck = Tail(@)]

\* SlideShowWindow._pop_next_pix: the pixmap returned (None when there is none)
pop_next_pix(win, shuf) ==
    LET w1 == refresh_files(win, FALSE, shuf)
        w2 == IF w1.deck = <<>> THEN rebuild_deck(w1, shuf) ELSE w1
    IN  IF w1.all_files = <<>> THEN None
        ELSE IF Head(w2.deck) \in Undecodable THEN None   \* pix.isNull()
        ELSE Head(w2.deck)

\* SlideShowWindow.apply_settings
apply_settings(win, s, shuf) ==
    LET w1 == [win EXCEPT !.settings = s,
                          !.audio = set_volume_0_100(@, s.music_volume),
                          !.canvas = set_effects(
                                         set_subtitles(@, load_srt(s.subtitle_file),
                                                       s.subtitle_fade_in_ms,
                                                       s.subtitle_fade_out_ms),
                                         s.transition_type, s.transition_ms,
                                         s.hold_ms, s.kenburns,
                                         s.kenburns_strength_percent)]
    IN  refresh_files(w1, TRUE, shuf)

\* SlideShowWindow.__init__
WindowInit(s, t, shuf) ==
    apply_settings(
        [ settings |-> s, canvas |-> CanvasInit(t),
          audio |-> [volume |-> 100, playing |-> FALSE],
          all_files |-> <<>>, deck |-> <<>>, running |-> FALSE,
          hold_timer |-> QTimerInit, anim_timer |-> FALSE, render_timer |-> FALSE,
          fadeout_timer |-> FALSE, anim_start_ts |-> 0,
          timer_fadeout_started |-> FALSE, fadeout_start_ts |-> 0,
          fadeout_from_volume |-> 0, visible |-> FALSE ],
        s, shuf)

\* start that goes on although no image was found
start_without_images(win, t, shuf) ==
    IF win.running THEN win
    ELSE
    LET w1 == refresh_files(reset_fadeout_state([win EXCEPT !.running = TRUE]), TRUE, shuf)
        w2 == [w1 EXCEPT !.visible = TRUE,
                         !.audio = IF Len(w1.settings.music_files) > 0
                                   THEN [set_volume_0_100(@, w1.settings.music_volume)
                                            EXCEPT !.playing = TRUE]
                                   ELSE @]
        pix == pop_next_pix(w2, shuf)
        w3 == IF w2.canvas.current_src = None
              THEN IF pix # None
                   THEN [pop_next_win(w2, shuf) EXCEPT !.canvas = set_current(@, pix, t)]
                   ELSE pop_next_win(w2, shuf)
              ELSE w2
    IN  [w3 EXCEPT !.hold_timer = qt_start(@, w3.settings.hold_ms, t),
                   !.render_timer = TRUE]

\* SlideShowWindow.start
start(win, t, shuf) ==
    IF win.running THEN win
    ELSE
    LET w1 == refresh_files(reset_fadeout_state([win EXCEPT !.running = TRUE]), TRUE, shuf)
        w2 == [w1 EXCEPT !.visible = TRUE,
                         !.audio = IF Len(w1.settings.music_files) > 0
                                   THEN [set_volume_0_100(@, w1.settings.music_volume)
                                            EXCEPT !.playing = TRUE]
                                   ELSE @]
        pix == pop_next_pix(w2, shuf)
        w3 == IF w2.canvas.current_src = None
              THEN IF pix # None
                   THEN [pop_next_win(w2, shuf) EXCEPT !.canvas = set_current(@, pix, t)]
                   ELSE pop_next_win(w2, shuf)
              ELSE w2
    IN  IF w1.all_files = <<>>
        THEN [w1 EXCEPT !.running = FALSE]
        ELSE [w3 EXCEPT !.hold_timer = qt_start(@, w3.settings.hold_ms, t),
                        !.render_timer = TRUE]

\* stop without the closing _timer_fadeout_started = False
stop_keeps_fade_flag(win) ==
    [win EXCEPT !.running = FALSE,
                !.hold_timer = qt_stop(@),
                !.anim_timer = FALSE,
                !.render_timer = FALSE,
                !.fadeout_timer = FALSE,
                !.canvas = clear([stop_timer(@) EXCEPT !.black_alpha = Zero,
                                                       !.subtitle_alpha_mul = One]),
                !.visible = FALSE,
                !.audio = [set_volume_0_100(@, win.settings.music_volume)
                              EXCEPT !.playing = FALSE]]

\* SlideShowWindow.stop
stop(win) ==
    [win EXCEPT !.running = FALSE,
                !.hold_timer = qt_stop(@),
                !.anim_timer = FALSE,
                !.render_timer = FALSE,
                !.fadeout_timer = FALSE,
                !.canvas = clear([stop_timer(@) EXCEPT !.black_alpha = Zero,
                                                       !.subtitle_alpha_mul = One]),
                !.visible = FALSE,
                !.audio = [set_volume_0_100(@, win.settings.music_volume)
                              EXCEPT !.playing = FALSE],
                !.timer_fadeout_started = FALSE]

\* start_timer_now without _reset_fadeout_state
start_timer_now_keeps_fade(win, t) ==
    IF ~win.running THEN win
    ELSE [win EXCEPT !.canvas = start_timer(@, win.settings.timer_start_seconds, t)]

\* SlideShowWindow.start_timer_now
start_timer_now(win, t) ==
    IF ~win.running THEN win
    ELSE [reset_fadeout_state(win)
            EXCEPT !.canvas = start_timer(@, win.settings.timer_start_seconds, t)]

\* stop_timer_now without _reset_fadeout_state
stop_timer_now_keeps_fade(win) == [win EXCEPT !.canvas = stop_timer(@)]

\* SlideShowWindow.stop_timer_now
stop_timer_now(win) ==
    reset_fadeout_state([win EXCEPT !.canvas = stop_timer(@)])

\* the fade window without the post-zero hold
fade_ms_without_hold(win) ==
    Max(FADEOUT_DURATION_MS, fadeout_trigger_seconds(win) * 1000)

\* the fade window of _on_fadeout_tick:
\* max(FADEOUT_DURATION_MS, trigger * 1000 + FADEOUT_POST_ZERO_HOLD_MS)
fade_ms(win) ==
    Max(FADEOUT_DURATION_MS,
        fadeout_trigger_seconds(win) * 1000 + FADEOUT_POST_ZERO_HOLD_MS)

\* p of _on_fadeout_tick: max(0.0, min(1.0, elapsed_ms / fade_ms))
fade_p(win, t) == Clamp01(t - win.fadeout_start_ts, fade_ms(win))

\* the volume _on_fadeout_tick hands to the audio player:
\* int(round(fadeout_from_volume * (1.0 - p)))
fade_tick_volume(win, t) ==
    LET p == fade_p(win, t)
    IN  PyRound(win.fadeout_from_volume * (p[2] - p[1]), p[2])

\* _on_fadeout_tick that does not stop the presentation at p >= 1
on_fadeout_tick_never_stops(win, t) ==
    IF ~win.canvas.timer_active \/ ~win.timer_fadeout_started
    THEN [win EXCEPT !.fadeout_timer = FALSE]
    ELSE
    LET p == fade_p(win, t)
    IN  [win EXCEPT !.audio = set_volume_0_100(@, fade_tick_volume(win, t)),
                    !.canvas.subtitle_alpha_mul = FCompl(p),
                    !.canvas.black_alpha = p]

\* SlideShowWindow._on_fadeout_tick
on_fadeout_tick(win, t) ==
    IF ~win.canvas.timer_active \/ ~win.timer_fadeout_started
    THEN [win EXCEPT !.fadeout_timer = FALSE]
    ELSE
    LET p == fade_p(win, t)
        w1 == [win EXCEPT !.audio = set_volume_0_100(@, fade_tick_volume(win, t)),
                          !.canvas.subtitle_alpha_mul = FCompl(p),
                          !.canvas.black_alpha = p]
    IN  IF p = One THEN stop([w1 EXCEPT !.fadeout_timer = FALSE]) ELSE w1

\* next_now that leaves the hold timer running during the transition
next_now_keeps_hold(win, t, shuf) ==
    LET nxt == pop_next_pix(win, shuf)
        w1 == pop_next_win(win, shuf)
    IN  IF ~win.running THEN win
        ELSE IF nxt = None THEN w1
        ELSE IF w1.settings.transition_ms <= 0
        THEN [w1 EXCEPT !.canvas = set_current(@, nxt, t)]
        ELSE [w1 EXCEPT !.canvas = start_transition(@, nxt, t),
                        !.anim_start_ts = t,
                        !.anim_timer = TRUE]

\* SlideShowWindow.next_now
next_now(win, t, shuf) ==
    LET nxt == pop_next_pix(win, shuf)
        w1 == pop_next_win(win, shuf)
    IN  IF ~win.running THEN win
        ELSE IF nxt = None THEN w1
        ELSE IF w1.settings.transition_ms <= 0
        THEN [w1 EXCEPT !.canvas = set_current(@, nxt, t)]
        ELSE [w1 EXCEPT !.canvas = start_transition(@, nxt, t),
                        !.anim_start_ts = t,
                        !.anim_timer = TRUE,
                        !.hold_timer = qt_stop(@)]

\* SlideShowWindow._on_hold_timeout
on_hold_timeout(win, t, shuf) ==
    IF win.running THEN next_now(win, t, shuf) ELSE win

\* _on_anim_tick that restarts the hold timer whether or not the presentation runs
on_anim_tick_rearms(win, t) ==
    LET elapsed_ms == t - win.anim_start_ts
        d == Max(1, win.settings.transition_ms)
        w1 == [win EXCEPT !.canvas = set_progress(@, elapsed_ms, d, t)]
    IN  IF elapsed_ms >= d
        THEN [w1 EXCEPT !.anim_timer = FALSE,
                        !.hold_timer = qt_start(@, w1.settings.hold_ms, t)]
        ELSE w1

\* _on_anim_tick that leaves the hold timer stopped after the commit
on_anim_tick_leaves_hold(win, t) ==
    LET elapsed_ms == t - win.anim_start_ts
        d == Max(1, win.settings.transition_ms)
        w1 == [win EXCEPT !.canvas = set_progress(@, elapsed_ms, d, t)]
    IN  IF elapsed_ms >= d
        THEN [w1 EXCEPT !.anim_timer = FALSE]
        ELSE w1

\* SlideShowWindow._on_anim_tick
on_anim_tick(win, t) ==
    LET elapsed_ms == t - win.anim_start_ts
        d == Max(1, win.settings.transition_ms)
        w1 == [win EXCEPT !.canvas = set_progress(@, elapsed_ms, d, t)]
    IN  IF elapsed_ms >= d
        THEN [w1 EXCEPT !.anim_timer = FALSE,
                        !.hold_timer = IF w1.running
                                      THEN qt_start(@, w1.settings.hold_ms, t) ELSE @]
        ELSE w1

----------------------------------------------------------------------------
(* The event loop: one action per handler *)

\* the periodic Qt timers (16 ms and 33 ms intervals) that are running
ActiveTimers(win) ==
    {x \in {"render"} : win.render_timer}
      \cup {x \in {"anim"} : win.anim_timer}
      \cup {x \in {"fadeout"} : win.fadeout_timer}

\* the timers that have fired since the clock last advanced, after a handler
\* that took the window from w to win2; `me` is the timer that just fired
FiredAfter(win2, me) ==
    {x \in fired \cup me : x \in ActiveTimers(w) /\ x \in ActiveTimers(win2)}

\* the countdown phase of section 4.6, read off the flags
Phase(win) ==
    IF ~win.canvas.timer_active THEN "Inactive"
    ELSE IF win.timer_fadeout_started THEN "FadingOut" ELSE "Active"

\* timer_cmd is <<key, phase before it>> right after T or Shift+T was handled
NoTimerCmd == <<"none", "none">>

\* the longest fade window any configuration gives
MaxFadeMs ==
    CHOOSE m \in {fade_ms([settings |-> s]) : s \in SettingsChoices} :
        \A s \in SettingsChoices : fade_ms([settings |-> s]) <= m

Init ==
    /\ now = 0
    /\ w \in {WindowInit(DefaultSettings, 0, shuf) : shuf \in Perms(FolderFiles)}
    /\ fired = {}
    /\ fade_volume = NoVolume
    /\ timer_cmd = NoTimerCmd
    /\ cmds = 0

\* time passes; every running periodic timer fires at least once per TickMs
AdvanceClock ==
    /\ now + TickMs <= MaxNow
    /\ ActiveTimers(w) \subseteq fired
    /\ ~(w.hold_timer.active /\ w.hold_timer.due <= now)
    /\ now' = now + TickMs
    /\ fired' = {}
    /\ timer_cmd' = NoTimerCmd
    /\ UNCHANGED fade_volume
    /\ UNCHANGED <<w, cmds>>

\* F5 / MultiDisplaySlideShow.start
Start ==
    /\ cmds < MaxCmds
    /\ \E shuf \in Perms(sorted_images(w.settings.image_folder)) : w' = start(w, now, shuf)
    /\ fired' = FiredAfter(w', {})
    /\ cmds' = cmds + 1
    /\ timer_cmd' = NoTimerCmd
    /\ UNCHANGED fade_volume
    /\ UNCHANGED now

\* Esc, F6 / MultiDisplaySlideShow.stop
Stop ==
    /\ cmds < MaxCmds
    /\ w' = stop(w)
    /\ fired' = FiredAfter(w', {})
    /\ cmds' = cmds + 1
    /\ timer_cmd' = NoTimerCmd
    /\ UNCHANGED fade_volume
    /\ UNCHANGED now

\* Space
NextNow ==
    /\ cmds < MaxCmds
    /\ \E shuf \in Perms(sorted_images(w.settings.image_folder)) : w' = next_now(w, now, shuf)
    /\ fired' = FiredAfter(w', {})
    /\ cmds' = cmds + 1
    /\ timer_cmd' = NoTimerCmd
    /\ UNCHANGED fade_volume
    /\ UNCHANGED now

\* T / MultiDisplaySlideShow.start_timer_now; a countdown is only started
\* when it can run out before MaxNow
StartTimerNow ==
    /\ cmds < MaxCmds
    /\ w.settings.timer_start_seconds > 0
         => now + w.settings.timer_start_seconds * 1000 + MaxFadeMs <= MaxNow
    /\ w' = start_timer_now(w, now)
    /\ fired' = FiredAfter(w', {})
    /\ cmds' = cmds + 1
    /\ timer_cmd' = <<"T", Phase(w)>>
    /\ UNCHANGED fade_volume
    /\ UNCHANGED now

\* Shift+T
StopTimerNow ==
    /\ cmds < MaxCmds
    /\ w' = stop_timer_now(w)
    /\ fired' = FiredAfter(w', {})
    /\ cmds' = cmds + 1
    /\ timer_cmd' = <<"Shift+T", Phase(w)>>
    /\ UNCHANGED fade_volume
    /\ UNCHANGED now

\* the settings dialogs of the main window are accepted
ApplySettings ==
    /\ cmds < MaxCmds
    /\ \E s \in SettingsChoices :
         \E shuf \in Perms(sorted_images(s.image_folder)) :
            w' = apply_settings(w, s, shuf)
    /\ fired' = FiredAfter(w', {})
    /\ cmds' = cmds + 1
    /\ timer_cmd' = NoTimerCmd
    /\ UNCHANGED fade_volume
    /\ UNCHANGED now

\* hold_timer.timeout
OnHoldTimeout ==
    /\ w.hold_timer.active /\ w.hold_timer.due <= now
    /\ \E shuf \in Perms(sorted_images(w.settings.image_folder)) :
          w' = [on_hold_timeout(w, now, shuf) EXCEPT !.hold_timer = qt_rearm(@, now)]
    /\ fired' = FiredAfter(w', {})
    /\ timer_cmd' = NoTimerCmd
    /\ UNCHANGED fade_volume
    /\ UNCHANGED <<now, cmds>>

\* anim_timer.timeout
OnAnimTick ==
    /\ w.anim_timer
    /\ w' = on_anim_tick(w, now)
    /\ fired' = FiredAfter(w', {"anim"})
    /\ timer_cmd' = NoTimerCmd
    /\ UNCHANGED fade_volume
    /\ UNCHANGED <<now, cmds>>

\* render_timer.timeout (canvas.update, then _tick_overlay)
TickOverlay ==
    /\ w.render_timer
    /\ w' = tick_overlay(w, now)
    /\ fired' = FiredAfter(w', {"render"})
    /\ timer_cmd' = NoTimerCmd
    /\ UNCHANGED fade_volume
    /\ UNCHANGED <<now, cmds>>

\* _fadeout_timer.timeout; fade_volume is the volume the latest fade tick
\* handed to the audio player at line 243 (NoVolume before the first one)
OnFadeoutTick ==
    /\ w.fadeout_timer
    /\ w' = on_fadeout_tick(w, now)
    /\ fired' = FiredAfter(w', {"fadeout"})
    /\ fade_volume' = IF w.canvas.timer_active /\ w.timer_fadeout_started
                      THEN fade_tick_volume(w, now) ELSE fade_volume
    /\ timer_cmd' = NoTimerCmd
    /\ UNCHANGED <<now, cmds>>

Next ==
    \/ AdvanceClock
    \/ Start
    \/ Stop
    \/ NextNow
    \/ StartTimerNow
    \/ StopTimerNow
    \/ ApplySettings
    \/ OnHoldTimeout
    \/ OnAnimTick
    \/ TickOverlay
    \/ OnFadeoutTick

Spec == Init /\ [][Next]_vars

----------------------------------------------------------------------------
(* The countdown left to run: the presentation was started at time 0 and  *)
(* there is no Esc/F6, no Shift+T and no T while a countdown is active,    *)
(* the user issuing up to MaxLiveCmds commands in all.                     *)
(* Qt delivers every timeout of a running timer and                        *)
(* time passes, hence the weak fairness of the clock and the timer         *)
(* handlers taken together: the event loop never stops serving them.       *)

\* T pressed while no countdown is active
StartTimerFresh ==
    /\ ~w.canvas.timer_active
    /\ StartTimerNow

\* the presentation right after F5 at time 0
InitLive ==
    /\ now = 0
    /\ w \in {start(WindowInit(DefaultSettings, 0, shuf), 0, shuf) : shuf \in Perms(FolderFiles)}
    /\ fired = {}
    /\ fade_volume = NoVolume
    /\ timer_cmd = NoTimerCmd
    /\ cmds = 1

LiveCommand ==
    /\ cmds < MaxLiveCmds
    /\ \/ NextNow
       \/ StartTimerFresh
       \/ ApplySettings

LiveNext ==
    \/ AdvanceClock
    \/ LiveCommand
    \/ OnHoldTimeout
    \/ OnAnimTick
    \/ TickOverlay
    \/ OnFadeoutTick

\* what the event loop does by itself
EventLoop ==
    \/ AdvanceClock
    \/ OnHoldTimeout
    \/ OnAnimTick
    \/ TickOverlay
    \/ OnFadeoutTick

LiveSpec ==
    /\ InitLive
    /\ [][LiveNext]_vars
    /\ WF_vars(EventLoop)

----------------------------------------------------------------------------
(* The presentation running on its own for every configuration of the      *)
(* countdown: F5 and T are pressed at time 0 and only the timers act.      *)

\* largest fade trigger threshold (seconds) and the volumes tried
MaxTrigger == 4
VolumeChoices == {0, 37, 80, 100}

AutoConfigs ==
    { s \in { [DefaultSettings EXCEPT !.timer_fadeout_trigger_seconds = k,
                                      !.music_volume = v,
                                      !.timer_start_seconds = n] :
                k \in 0..MaxTrigger, v \in VolumeChoices, n \in 1..2 } :
        s.timer_start_seconds * 1000 + fade_ms([settings |-> s]) <= MaxNow }

InitAuto ==
    /\ now = 0
    /\ w \in { start_timer_now(start(WindowInit(s, 0, FolderFiles), 0, FolderFiles), 0) :
                 s \in AutoConfigs }
    /\ fired = {}
    /\ fade_volume = NoVolume
    /\ timer_cmd = NoTimerCmd
    /\ cmds = 2

AutoNext ==
    \/ AdvanceClock
    \/ OnHoldTimeout
    \/ OnAnimTick
    \/ TickOverlay
    \/ OnFadeoutTick

AutoSpec == InitAuto /\ [][AutoNext]_vars

----------------------------------------------------------------------------
(* The slide timeline driven directly through the canvas methods, in any   *)
(* order and with any progress value.                                      *)

\* the values p = n / d handed to set_progress
ProgressInputs == { <<0 - 1, 2>>, <<0, 1>>, <<1, 4>>, <<1, 2>>, <<1, 1>>, <<3, 2>> }

CanvasStep(c) ==
    /\ w' = [w EXCEPT !.canvas = c]
    /\ timer_cmd' = NoTimerCmd
    /\ UNCHANGED fade_volume
    /\ UNCHANGED <<now, fired, cmds>>

CanvasSetCurrent == \E pix \in 1..NumFiles : CanvasStep(set_current(w.canvas, pix, now))

CanvasStartTransition ==
    \E pix \in 1..NumFiles : CanvasStep(start_transition(w.canvas, pix, now))

CanvasSetProgress ==
    \E p \in ProgressInputs : CanvasStep(set_progress(w.canvas, p[1], p[2], now))

CanvasClear == CanvasStep(clear(w.canvas))

CanvasNext ==
    \/ AdvanceClock
    \/ CanvasSetCurrent
    \/ CanvasStartTransition
    \/ CanvasSetProgress
    \/ CanvasClear

CanvasSpec == Init /\ [][CanvasNext]_vars

----------------------------------------------------------------------------
(* The slide timeline and its compositor under every kind of effect        *)
(* configuration: the canvas methods are called in any order while the     *)
(* clock advances.                                                         *)

\* a transition kind that is neither fade nor sweep (settings are read from
\* a JSON file, so any string can arrive)
OTHER_KIND == "Dissolve"

\* widths of the viewport the frames are painted for
ViewportWidths == {7, 1920}

RenderConfigs ==
    { [DefaultSettings EXCEPT !.transition_type = k[1], !.kenburns = k[2],
                              !.kenburns_strength_percent = k[3],
                              !.hold_ms = k[4], !.transition_ms = k[5]] :
        k \in { <<FADE, KB_NONE, 10, 1000, 1000>>, <<FADE, ZOOM_IN, 10, 3000, 600>>,
                <<FADE, ZOOM_OUT, 25, 1000, 1000>>, <<FADE, ALTERNATE, 10, 1000, 1000>>,
                <<FADE, ZOOM_IN, 0, 1000, 1000>>,
                <<SWEEP, ALTERNATE, 50, 1, 0>>, <<SWEEP, ZOOM_OUT, 25, 500, 0>>,
                <<OTHER_KIND, ALTERNATE, 10, 1000, 1000>>,
                <<OTHER_KIND, KB_NONE, 10, 1000, 1000>> } }

InitRender ==
    /\ now = 0
    /\ w \in {WindowInit(s, 0, FolderFiles) : s \in RenderConfigs}
    /\ fired = {}
    /\ fade_volume = NoVolume
    /\ timer_cmd = NoTimerCmd
    /\ cmds = 0

RenderSpec == InitRender /\ [][CanvasNext]_vars

----------------------------------------------------------------------------
(* The presentation without a countdown, for the alternate zoom and both    *)
(* deck orders, with cuts (transition_ms = 0) and with transitions, over a  *)
(* folder that holds the image files and over an empty one.                 *)

\* what the image folder can hold: all the files, one of them, none
Folders == { ListImages, <<ListImages[1]>>, <<>> }

\* a shuffle seed set on the settings object
SEED == 2

ShowConfigs ==
    { [DefaultSettings EXCEPT !.kenburns = ALTERNATE, !.order = o,
                              !.transition_ms = tr, !.image_folder = dir] :
        o \in {NAME, RANDOM}, tr \in {0, 1000}, dir \in {ListImages} }
    \cup
    { [DefaultSettings EXCEPT !.kenburns = ALTERNATE, !.order = RANDOM,
                              !.transition_ms = 0, !.shuffle_seed = SEED] }

\* the window is constructed ShowSpan ms before the clock's last reading
ShowSpan == 3000

InitShow ==
    /\ now = MaxNow - ShowSpan
    /\ \E s \in ShowConfigs : \E shuf \in Perms(sorted_images(s.image_folder)) :
         w = WindowInit(s, now, shuf)
    /\ fired = {}
    /\ fade_volume = NoVolume
    /\ timer_cmd = NoTimerCmd
    /\ cmds = 0

\* files are added to or removed from the image folder; list_images reads
\* the folder anew at every refresh_files
FolderChange ==
    /\ cmds < MaxCmds
    /\ \E dir \in Folders \ {w.settings.image_folder} :
         w' = [w EXCEPT !.settings.image_folder = dir]
    /\ cmds' = cmds + 1
    /\ UNCHANGED <<now, fired, fade_volume, timer_cmd>>

\* F5 while no presentation runs (start returns at once when one does)
StartShow == ~w.running /\ Start

ShowNext ==
    \/ AdvanceClock
    \/ FolderChange
    \/ StartShow
    \/ Stop
    \/ NextNow
    \/ OnHoldTimeout
    \/ OnAnimTick
    \/ TickOverlay

ShowSpec == InitShow /\ [][ShowNext]_vars

----------------------------------------------------------------------------
(* The presentation over a folder in which one file cannot be decoded, left  *)
(* to its timers after at most MaxLiveCmds key presses (F5, Space).  Qt      *)
(* delivers every timeout of a running timer and time passes: weak fairness  *)
(* of the event loop.                                                        *)

SkipConfigs ==
    { [DefaultSettings EXCEPT !.order = o, !.transition_ms = tr,
                              !.image_folder = <<1, BadFile>>] :
        o \in {NAME, RANDOM}, tr \in {0, 1000} }

InitSkip ==
    /\ now = 0
    /\ \E s \in SkipConfigs : \E shuf \in Perms(sorted_images(s.image_folder)) :
         w = WindowInit(s, 0, shuf)
    /\ fired = {}
    /\ fade_volume = NoVolume
    /\ timer_cmd = NoTimerCmd
    /\ cmds = 0

SkipCommand ==
    /\ cmds < MaxLiveCmds
    /\ \/ StartShow
       \/ NextNow

SkipNext ==
    \/ AdvanceClock
    \/ SkipCommand
    \/ OnHoldTimeout
    \/ OnAnimTick
    \/ TickOverlay

SkipSpec ==
    /\ InitSkip
    /\ [][SkipNext]_vars
    /\ WF_vars(EventLoop)

----------------------------------------------------------------------------
(* Properties *)

\* AudioPlayer volume that "the full configured value" gives
ConfiguredVolume(win) == Max(0, Min(100, win.settings.music_volume))

\* C1: while the presentation keeps running, a pending next image is never
\* dropped or replaced: from one state to the next it either stays pending
\* or it has been committed into current (and next is cleared), so every
\* transition begun is committed exactly once.
C1_CommitExactlyOnce ==
    [][ (w.running /\ w'.running /\ w.canvas.next_src # None)
          => \/ w'.canvas.next_src = w.canvas.next_src
             \/ /\ w'.canvas.next_src = None
                /\ w'.canvas.current_src = w.canvas.next_src ]_vars

\* the state in which the fade-out has just ended the presentation: the last
\* fade tick handed volume 0 to the audio player and stop() ran
FadeTerminated ==
    /\ fade_volume = 0
    /\ ~w.running /\ ~w.visible
    /\ ~w.hold_timer.active /\ ~w.anim_timer /\ ~w.render_timer /\ ~w.fadeout_timer
    /\ ~w.canvas.timer_active

\* C2: a countdown started with a positive duration and then left alone (no
\* stop, stop-timer or restart) has entered FadingOut once the clock has come
\* within 0.5 s of end_ts (9.5 s after start(10)) and the overlay tick has
\* run at that clock reading, and eventually the last tick of that fade
\* hands volume 0 to the audio player and the presentation is terminated:
\* not running, hidden, hold, animation and render timers stopped.
C2_CountdownRunsOut ==
    /\ [](w.canvas.timer_active /\ now >= w.canvas.timer_end_ts - 500
            /\ "render" \in fired
            => w.timer_fadeout_started)
    /\ (w.canvas.timer_active ~> FadeTerminated)

C2_Witness == FadeTerminated /\ cmds >= 2

\* C3: a fade-out tick with p >= 1 stops the presentation (not running, hold
\* and animation timers stopped), hides the output and leaves the countdown
\* Inactive; no other timer-driven step ends the presentation, the only other
\* way out of running being the explicit stop command; and whenever the
\* countdown is Active or FadingOut the presentation is running.
C3_OnlyFadeEndsShow ==
    /\ [](w.canvas.timer_active => w.running /\ w.visible)
    /\ [][ /\ (OnFadeoutTick /\ Phase(w) = "FadingOut"
                 /\ now - w.fadeout_start_ts >= fade_ms(w))
              => ( /\ ~w'.running /\ ~w'.visible
                   /\ ~w'.hold_timer.active /\ ~w'.anim_timer
                   /\ Phase(w') = "Inactive" /\ ~w'.timer_fadeout_started )
           /\ (w.running /\ ~w'.running)
              => ( \/ Stop
                   \/ /\ OnFadeoutTick
                      /\ Phase(w) = "FadingOut"
                      /\ now - w.fadeout_start_ts >= fade_ms(w) ) ]_vars

C3_Witness == FadeTerminated /\ w.canvas.black_alpha = Zero

\* max(0, round(ms / 1000)) with Python's rounding, from its definition: the
\* nearest integer, the even one when two are equally near
C4_Remaining(ms) ==
    LET Dist(k) == IF 1000 * k >= ms THEN 1000 * k - ms ELSE ms - 1000 * k
        k0 == CHOOSE k \in (0 - (MaxNow \div 1000) - 1)..((MaxNow \div 1000) + 1) :
                 \/ Dist(k) < 500
                 \/ Dist(k) = 500 /\ k % 2 = 0
    IN  IF k0 < 0 THEN 0 ELSE k0

\* C4: at an overlay tick while the countdown is Active, the state becomes
\* FadingOut if and only if remaining <= the trigger threshold, and then
\* fadeout_start_ts = now and fadeout_from_volume = the configured volume;
\* once FadingOut, no step of the same countdown changes either of them or
\* takes the fade back to not started.
C4_FadeStartsOnce ==
    [][ /\ (TickOverlay /\ Phase(w) = "Active")
              => ( /\ ( w'.timer_fadeout_started
                          <=> ( C4_Remaining(w.canvas.timer_end_ts - now)
                                  <= w.settings.timer_fadeout_trigger_seconds ) )
                   /\ ( w'.timer_fadeout_started
                          => ( /\ w'.fadeout_start_ts = now
                               /\ w'.fadeout_from_volume = w.settings.music_volume
                               /\ w'.fadeout_timer ) ) )
        /\ (Phase(w) # "Active" /\ Phase(w') = "FadingOut")
              => ( /\ Phase(w) = "FadingOut"
                   /\ w'.fadeout_start_ts = w.fadeout_start_ts
                   /\ w'.fadeout_from_volume = w.fadeout_from_volume
                   /\ w'.canvas.timer_end_ts = w.canvas.timer_end_ts ) ]_vars

\* a fade that began at a remaining time Python rounds down to the threshold
C4_Witness ==
    /\ Phase(w) = "FadingOut"
    /\ w.fadeout_start_ts > 0
    /\ now > w.fadeout_start_ts
    /\ w.fadeout_from_volume = w.settings.music_volume
    /\ w.canvas.black_alpha # Zero

\* C5: at every fade-out tick that leaves the fade running, with
\* p = clamp(elapsed / fade window, 0, 1), the volume handed to the audio
\* player is round(fadeout_from_volume * (1 - p)), the subtitle multiplier is
\* 1 - p and the dim is p; and over a fade-out, from one state to the next
\* (the configuration staying as it is), the audio volume and the subtitle
\* multiplier never increase and the dim never decreases.
C5_FadeRamp ==
    [][ (Phase(w) = "FadingOut" /\ Phase(w') = "FadingOut"
           /\ w'.settings = w.settings)
          => /\ OnFadeoutTick
                  => /\ w'.canvas.black_alpha = fade_p(w, now)
                     /\ w'.canvas.subtitle_alpha_mul = FCompl(fade_p(w, now))
                     /\ w'.audio.volume = fade_volume'
             /\ w'.audio.volume <= w.audio.volume
             /\ FLeq(w'.canvas.subtitle_alpha_mul, w.canvas.subtitle_alpha_mul)
             /\ FLeq(w.canvas.black_alpha, w'.canvas.black_alpha) ]_vars

\* the fade window of section 4.6 for a trigger threshold, in ms
C6_Window(trigger) ==
    IF 3000 >= trigger * 1000 + 2000 THEN 3000 ELSE trigger * 1000 + 2000

\* C6: for every trigger threshold >= 0 the fade runs over
\* max(3000, threshold * 1000 + 2000) ms: a fade tick ends the presentation
\* exactly when that much time has passed since the fade began, before that
\* it sets the dim to elapsed / window, and the window is neither shorter
\* than 3000 ms nor than the trigger window plus 2000 ms.
C6_FadeWindow ==
    [][ (OnFadeoutTick /\ Phase(w) = "FadingOut"
           /\ w.settings.timer_fadeout_trigger_seconds >= 0)
          => LET elapsed == now - w.fadeout_start_ts
                 window == C6_Window(w.settings.timer_fadeout_trigger_seconds)
             IN  /\ elapsed >= window => ~w'.running /\ fade_volume' = 0
                 /\ elapsed < window
                      => /\ w'.running
                         /\ w'.canvas.black_alpha = Frac(elapsed, window)
                 /\ window >= 3000
                 /\ window >= w.settings.timer_fadeout_trigger_seconds * 1000 + 2000
       ]_vars

\* a fade with a threshold above 1 s that has run past 3000 ms without ending
C6_Witness ==
    /\ Phase(w) = "FadingOut"
    /\ w.settings.timer_fadeout_trigger_seconds = 3
    /\ now - w.fadeout_start_ts > 3000
    /\ w.canvas.black_alpha = Frac(now - w.fadeout_start_ts, 5000)

C8_NonPositiveStart ==
    [][ /\ (StartTimerNow /\ w.settings.timer_start_seconds <= 0)
              => /\ Phase(w') = "Inactive"
                 /\ ~w'.timer_fadeout_started /\ ~w'.fadeout_timer
        /\ (Phase(w) = "Inactive" /\ ~StartTimerNow)
              => /\ Phase(w') = "Inactive"
                 /\ ~w'.timer_fadeout_started /\ ~w'.fadeout_timer ]_vars

\* start(0) or start(-5) was issued in the middle of a fade-out
C8_Witness ==
    /\ timer_cmd = <<"T", "FadingOut">>
    /\ w.settings.timer_start_seconds <= 0
    /\ w.running
    /\ Phase(w) = "Inactive"

\* C9: Shift+T in whatever phase gives Inactive with the fade cancelled (not
\* started, fade timer stopped), the audio volume at the configured value,
\* dim 0 and subtitle multiplier 1; and as long as the countdown is Inactive
\* all of that stays so: the fade does not resume without a new start.
C9_StopTimerResets ==
    /\ [][ StopTimerNow
             => /\ Phase(w') = "Inactive"
                /\ ~w'.timer_fadeout_started /\ ~w'.fadeout_timer
                /\ w'.audio.volume = ConfiguredVolume(w)
                /\ w'.canvas.black_alpha = Zero
                /\ w'.canvas.subtitle_alpha_mul = One ]_vars
    /\ [](Phase(w) = "Inactive"
            => /\ ~w.timer_fadeout_started /\ ~w.fadeout_timer
               /\ w.audio.volume = ConfiguredVolume(w)
               /\ w.canvas.black_alpha = Zero
               /\ w.canvas.subtitle_alpha_mul = One)

\* the countdown was stopped in the middle of a fade-out
C9_Witness ==
    /\ timer_cmd = <<"Shift+T", "FadingOut">>
    /\ w.running
    /\ Phase(w) = "Inactive"
    /\ now > 1000

\* C10: in every state of the slide timeline progress is within [0, 1], and
\* a next image is present only while progress < 1.
C10_NextOnlyWhileInProgress ==
    /\ w.canvas.progress[2] > 0
    /\ FLeq(Zero, w.canvas.progress) /\ FLeq(w.canvas.progress, One)
    /\ w.canvas.next_src # None => FLt(w.canvas.progress, One)

\* half way through a transition between two slides
C10_Witness ==
    /\ w.canvas.current_src # None
    /\ w.canvas.next_src # None
    /\ w.canvas.progress = <<1, 2>>

\* advance(1.0): set_progress is called with some p >= 1
AdvanceToOne ==
    \E p \in ProgressInputs :
        /\ p[1] >= p[2]
        /\ w'.canvas = set_progress(w.canvas, p[1], p[2], now)

\* C11: advance(1.0) with a pending next commits it: current becomes the
\* former next and next becomes absent (progress 1); advance(1.0) with no
\* pending next changes neither current, next, the start timestamps nor the
\* zoom directions, so a second advance(1.0) right after a commit is a no-op
\* and the commit happens exactly once.
C11_CommitThenNoOp ==
    [][ AdvanceToOne
          => /\ w.canvas.next_src # None
                  => /\ w'.canvas.current_src = w.canvas.next_src
                     /\ w'.canvas.next_src = None
                     /\ w'.canvas.progress = One
                     /\ set_progress(w'.canvas, 1, 1, now) = w'.canvas
             /\ w.canvas.next_src = None
                  => /\ w'.canvas.current_src = w.canvas.current_src
                     /\ w'.canvas.next_src = None
                     /\ w'.canvas.current_start = w.canvas.current_start
                     /\ w'.canvas.next_start = w.canvas.next_start
                     /\ w'.canvas.ken_dir_cur = w.canvas.ken_dir_cur
                     /\ w'.canvas.ken_dir_next = w.canvas.ken_dir_next ]_vars

\* a slide that came in through a commit (only a commit gives direction -1)
\* some time before now
C11_Witness ==
    /\ w.canvas.kenburns = ALTERNATE
    /\ w.canvas.ken_dir_cur = 0 - 1
    /\ w.canvas.next_src = None
    /\ w.canvas.progress = One
    /\ w.canvas.next_start < now

\* clock readings at which the zoom is compared across a commit
C12_Times == {now, now + 700, now + 2900, now + 10000}

\* C12: at a commit the new current slide has the start timestamp and the
\* zoom direction it had as next, so its Ken-Burns scale at the instant of
\* the commit, and at any later instant, is the same computed for it as next
\* just before the commit and as current just after it.
C12_ZoomContinuous ==
    [][ (AdvanceToOne /\ w.canvas.next_src # None)
          => /\ w'.canvas.current_start = w.canvas.next_start
             /\ w'.canvas.ken_dir_cur = w.canvas.ken_dir_next
             /\ \A t \in C12_Times :
                   ken_scale(w'.canvas, w'.canvas.current_start, t, w'.canvas.ken_dir_cur)
                     = ken_scale(w.canvas, w.canvas.next_start, t, w.canvas.ken_dir_next)
       ]_vars

\* a committed slide in the middle of its zoom, the commit having come some
\* time after the transition began
C12_Witness ==
    /\ w.canvas.kenburns = ALTERNATE
    /\ w.canvas.ken_dir_cur = 0 - 1
    /\ w.canvas.next_src = None
    /\ 0 < w.canvas.current_start /\ w.canvas.current_start < w.canvas.next_start
    /\ w.canvas.next_start = now
    /\ FLt(One, ken_scale(w.canvas, w.canvas.current_start, now, w.canvas.ken_dir_cur))
    /\ FLt(ken_scale(w.canvas, w.canvas.current_start, now, w.canvas.ken_dir_cur),
           ken_zoom(w.canvas.ken_strength, One))

\* the scale of section 4.2: duration = hold_ms + 2 * transition_ms,
\* t = clamp((now - start_ts) / duration, 0, 1)
C14_Reference(mode, strength_percent, hold_ms, transition_ms, start_ts, t, direction) ==
    LET duration == hold_ms + 2 * transition_ms
        e == IF t - start_ts < 0 THEN 0
             ELSE IF t - start_ts > duration THEN duration ELSE t - start_ts
    IN  IF mode = KB_NONE \/ strength_percent = 0 THEN <<1, 1>>
        ELSE IF mode = ZOOM_IN \/ (mode = ALTERNATE /\ direction = 1)
        THEN Frac(100 * duration + strength_percent * e, 100 * duration)
        ELSE Frac(100 * duration + strength_percent * (duration - e), 100 * duration)

\* start timestamps and clock readings the scale is computed for, next to
\* those of the state; readings before the start and after the end of the
\* zoom are among them
C14_Starts == {0, 1000}
C14_Clock == {0, 1001, 9000}

\* C14: for every mode, strength, direction, duration, start timestamp and
\* clock reading, _ken_scale equals the reference function: exactly 1 for
\* mode none or strength 0, 1 + strength * t for zoom-in and alternate +1
\* (1 at the start, 1 + strength once the duration has elapsed),
\* 1 + strength * (1 - t) for zoom-out and alternate -1, and never below 1.
C14_KenScaleIsReference ==
    LET c == w.canvas
        dur == c.hold_ms + 2 * c.transition_ms
    IN  \A d \in {0 - 1, 1} :
          /\ \A st \in C14_Starts \cup {c.current_start, c.next_start},
                t \in C14_Clock \cup {now} :
                /\ ken_scale(c, st, t, d)
                     = C14_Reference(c.kenburns, c.ken_strength, c.hold_ms,
                                     c.transition_ms, st, t, d)
                /\ FLeq(One, ken_scale(c, st, t, d))
          /\ c.kenburns = KB_NONE \/ c.ken_strength = 0
               => \A t \in C14_Clock \cup {now} : ken_scale(c, 1000, t, d) = One
          /\ c.kenburns = ZOOM_IN /\ c.ken_strength > 0
               => /\ ken_scale(c, 1000, 1000, d) = One
                  /\ ken_scale(c, 1000, 1000 + dur, d) = Frac(100 + c.ken_strength, 100)
          /\ c.kenburns = ZOOM_OUT /\ c.ken_strength > 0
               => /\ ken_scale(c, 1000, 1000, d) = Frac(100 + c.ken_strength, 100)
                  /\ ken_scale(c, 1000, 1000 + dur, d) = One

\* a slide zooming out, part of the way through its zoom
C14_Witness ==
    /\ w.canvas.kenburns = ZOOM_OUT
    /\ w.canvas.current_src # None
    /\ w.canvas.current_start < now
    /\ now < w.canvas.current_start + ken_duration_ms(w.canvas)
    /\ ken_scale(w.canvas, w.canvas.current_start, now, w.canvas.ken_dir_cur)
         = Frac(100 * ken_duration_ms(w.canvas)
                  + 25 * (ken_duration_ms(w.canvas) - (now - w.canvas.current_start)),
                100 * ken_duration_ms(w.canvas))

\* progress values the compositor is evaluated for
C15_Progress == { <<0, 1>>, <<1, 4>>, <<1, 3>>, <<1, 2>>, <<9, 10>>, <<1, 1>> }

\* C15: with the fade transition and a pending next, for every progress in
\* [0,1] and every non-empty viewport, the frame draws current at opacity
\* 1 - progress and then next at opacity progress, unclipped (current 1 and
\* next 0 at progress 0, current 0 and next 1 at progress 1), current scaled
\* with current_start and ken_dir_cur, next with next_start and ken_dir_next.
C15_FadeLayers ==
    (w.canvas.transition_type = FADE /\ w.canvas.next_src # None)
      => \A vw \in ViewportWidths, q \in C15_Progress \cup {w.canvas.progress} :
           LET c == [w.canvas EXCEPT !.progress = q]
               ops == paint_covers(c, now, vw)
           IN  /\ Len(ops) = 2
               /\ ops[1].src = c.current_src /\ ops[2].src = c.next_src
               /\ ops[1].alpha = Frac(q[2] - q[1], q[2])
               /\ ops[2].alpha = q
               /\ FAdd(ops[1].alpha, ops[2].alpha) = One
               /\ q = Zero => ops[1].alpha = One /\ ops[2].alpha = Zero
               /\ q = One => ops[1].alpha = Zero /\ ops[2].alpha = One
               /\ ops[1].scale = ken_scale(c, c.current_start, now, c.ken_dir_cur)
               /\ ops[2].scale = ken_scale(c, c.next_start, now, c.ken_dir_next)
               /\ ops[1].clip_w = NoClip /\ ops[2].clip_w = NoClip

\* a fade half done between two slides zooming in opposite directions, each
\* on its own timeline
C15_Witness ==
    /\ w.canvas.transition_type = FADE
    /\ w.canvas.kenburns = ALTERNATE
    /\ w.canvas.next_src # None
    /\ w.canvas.progress = Frac(1, 2)
    /\ w.canvas.current_start < w.canvas.next_start
    /\ w.canvas.next_start < now
    /\ paint_covers(w.canvas, now, 1920)[1].scale # paint_covers(w.canvas, now, 1920)[2].scale

\* C16: with the sweep transition and a pending next, current is drawn at
\* opacity 1 unclipped and next at opacity 1 clipped to the left-aligned
\* rectangle of width int(viewport_width * progress); that width is 0 at
\* progress 0, viewport_width at progress 1, and never shrinks as progress
\* grows.
C16_SweepClip ==
    (w.canvas.transition_type = SWEEP /\ w.canvas.next_src # None)
      => \A vw \in ViewportWidths :
           LET Grid == C15_Progress \cup {w.canvas.progress}
               Ops == [q \in Grid |->
                         paint_covers([w.canvas EXCEPT !.progress = q], now, vw)]
               Clip == [q \in Grid |-> Ops[q][2].clip_w]
           IN  /\ \A q \in Grid :
                    /\ Len(Ops[q]) = 2
                    /\ Ops[q][1].src = w.canvas.current_src
                    /\ Ops[q][1].alpha = One /\ Ops[q][1].clip_w = NoClip
                    /\ Ops[q][2].src = w.canvas.next_src
                    /\ Ops[q][2].alpha = One
                    /\ Clip[q] >= 0 /\ Clip[q] <= vw
                    /\ Clip[q] * q[2] <= vw * q[1]
                    /\ vw * q[1] < (Clip[q] + 1) * q[2]
               /\ Clip[Zero] = 0
               /\ Clip[One] = vw
               /\ \A q1, q2 \in Grid : FLeq(q1, q2) => Clip[q1] <= Clip[q2]

\* a sweep that has revealed a quarter of the next slide
C16_Witness ==
    /\ w.canvas.transition_type = SWEEP
    /\ w.canvas.next_src # None
    /\ w.canvas.progress = Frac(1, 4)
    /\ paint_covers(w.canvas, now, 1920)[2].clip_w = 480

\* C17: for a transition kind that is neither fade nor sweep, the frame is
\* the one the fade transition gives for the same state: current at opacity
\* 1 - progress, then next at opacity progress.
C17_FallbackIsFade ==
    (w.canvas.transition_type # FADE /\ w.canvas.transition_type # SWEEP)
      => \A vw \in ViewportWidths :
           paint_covers(w.canvas, now, vw)
             = paint_covers([w.canvas EXCEPT !.transition_type = FADE], now, vw)

\* C13: in alternate mode a transition that begins gives next the negation
\* of current's direction, a commit makes that direction current's, and
\* whenever the slide on show is replaced by the following one, by a
\* completed transition or by a cut, the new slide's direction is the
\* negation of the old one's: no two consecutive slides share a direction.
C13_DirectionsAlternate ==
    [][ (w.canvas.kenburns = ALTERNATE /\ w.running /\ w'.running)
          => /\ (w.canvas.next_src = None /\ w'.canvas.next_src # None)
                  => w'.canvas.ken_dir_next = 0 - w.canvas.ken_dir_cur
             /\ (w.canvas.next_src # None /\ w'.canvas.next_src = None
                   /\ w'.canvas.current_src = w.canvas.next_src)
                  => w'.canvas.ken_dir_cur = w.canvas.ken_dir_next
             /\ (w.canvas.current_src # None /\ w'.canvas.current_src # None
                   /\ w'.canvas.current_start # w.canvas.current_start)
                  => w'.canvas.ken_dir_cur = 0 - w.canvas.ken_dir_cur ]_vars

\* a step in which a running presentation asks for its next item: Space, or
\* the hold timer's timeout
NextRequested ==
    /\ w.running /\ w'.running
    /\ w'.settings = w.settings
    /\ \/ cmds' = cmds + 1
       \/ /\ w.hold_timer.active /\ w.hold_timer.due <= now
          /\ w'.hold_timer # w.hold_timer

\* the item the request handed to the canvas
Requested == IF w.settings.transition_ms <= 0 THEN w'.canvas.current_src
             ELSE w'.canvas.next_src

\* the deck is used up and the folder still holds the files it was built from
Exhausted ==
    /\ w.deck = <<>>
    /\ w.all_files = sorted_images(w.settings.image_folder)

\* C18 (as the spec states it): a request on a used-up deck over an unchanged
\* list of N assets leaves a rebuilt deck of N items, or an empty deck and
\* nothing handed out when the list is empty.
C18_RebuiltDeckOfN ==
    [][ (NextRequested /\ Exhausted)
          => IF w.all_files = <<>>
             THEN w'.deck = <<>> /\ w'.canvas = w.canvas
             ELSE Len(w'.deck) = Len(w.all_files) ]_vars

\* C18 (amended): a request on a used-up deck over an unchanged list of N
\* assets rebuilds the deck once from the N assets and hands out its first
\* item, so that the item handed out followed by the N - 1 items left in the
\* deck is an arrangement of the asset list; when the list is empty nothing
\* is handed out and the deck stays empty.
C18_OneRebuildThenPop ==
    [][ (NextRequested /\ Exhausted)
          => /\ w'.all_files = w.all_files
             /\ IF w.all_files = <<>>
                THEN w'.deck = <<>> /\ w'.canvas = w.canvas
                ELSE /\ Len(w'.deck) = Len(w.all_files) - 1
                     /\ <<Requested>> \o w'.deck \in Perms(w.all_files) ]_vars

\* every item was shown once, the deck was used up, and the request after
\* that brought the first item again and left the others in the deck
C18_Witness ==
    /\ w.running /\ now = MaxNow - ShowSpan /\ cmds = NumFiles + 1
    /\ w.settings.order = NAME /\ w.settings.transition_ms > 0
    /\ Len(w.all_files) = NumFiles
    /\ w.canvas.current_src = Head(w.all_files)
    /\ w.canvas.next_src = Head(w.all_files)
    /\ w.deck = Tail(w.all_files)

\* C19: while the deck still holds unconsumed items and the asset list is
\* unchanged, no step rebuilds it: a step leaves the deck as it is or takes
\* its first item off.
C19_NoEagerRebuild ==
    [][ ( /\ w.deck # <<>>
          /\ w.all_files = sorted_images(w.settings.image_folder)
          /\ w'.settings.image_folder = w.settings.image_folder )
          => (w'.deck = w.deck \/ w'.deck = Tail(w.deck)) ]_vars

\* the files of a listing, first letter of the alphabet first whatever its
\* case: file f is named by the f-th letter
AlphabetOrder(files) ==
    \A i, j \in 1..Len(files) : i < j => files[i] < files[j]

\* the listing of the folder in that order
Alphabetical(folder) ==
    CHOOSE files \in Perms(folder) : AlphabetOrder(files)

\* C20: in name order the asset list is kept in ascending case-insensitive
\* name order and the deck is a tail of it; a request hands out the first
\* item of the deck and leaves the rest, and when the deck is used up or the
\* folder's files have changed it hands out the first item of the folder's
\* files in that same order and leaves the rest, so every pass over an
\* unchanged folder is the same sequence.
C20_NameOrder ==
    [][ w.settings.order = NAME
          => /\ AlphabetOrder(w'.all_files)
             /\ \E k \in 0..Len(w'.all_files) :
                  w'.deck = SubSeq(w'.all_files, k + 1, Len(w'.all_files))
             /\ NextRequested
                  => LET files == Alphabetical(w.settings.image_folder)
                         queue == IF w.deck = <<>> \/ w.all_files # files
                                  THEN files ELSE w.deck
                     IN  /\ w'.all_files = files
                         /\ IF files = <<>>
                            THEN w'.deck = <<>> /\ w'.canvas = w.canvas
                            ELSE Requested = Head(queue) /\ w'.deck = Tail(queue) ]_vars

\* a second pass has begun: after every file was shown once, in order, the
\* request that found the deck used up showed the first file again
C20_Witness ==
    /\ w.running /\ now = MaxNow - ShowSpan /\ cmds = NumFiles + 1
    /\ w.settings.order = NAME /\ w.settings.transition_ms <= 0
    /\ w.all_files = [i \in 1..NumFiles |-> i]
    /\ FileName(w.all_files[1]) > FileName(w.all_files[2])
    /\ w.canvas.current_src = 1
    /\ w.canvas.next_src = None
    /\ w.deck = Tail(w.all_files)

\* the deck is what is left of one arrangement of the asset list
TailOfArrangement(deck, files) ==
    \E p \in Perms(files) : \E k \in 0..Len(files) : deck = SubSeq(p, k + 1, Len(files))

\* C21: in random order every rebuilt deck is an arrangement of the asset
\* list, the N requests between two rebuilds over an unchanged list of N
\* assets hand out each asset exactly once, and the deck is reshuffled only
\* when it is used up: while it holds items of an unchanged asset list a step
\* leaves it as it is or takes its first item off.
C21_ReshuffledOnlyWhenExhausted ==
    [][ w.settings.order = RANDOM
          => /\ TailOfArrangement(w'.deck, w'.all_files)
             /\ (NextRequested /\ Exhausted /\ w.all_files # <<>>)
                  => <<Requested>> \o w'.deck \in Perms(w.all_files)
             /\ ( /\ w.deck # <<>>
                  /\ w.all_files = sorted_images(w.settings.image_folder)
                  /\ w'.settings.image_folder = w.settings.image_folder )
                  => (w'.deck = w.deck \/ w'.deck = Tail(w.deck)) ]_vars

C23_EmptyDoesNotStart ==
    [][ (sorted_images(w.settings.image_folder) = <<>> /\ w'.settings = w.settings)
          => /\ ~w.running
                  => /\ ~w'.running /\ ~w'.visible
                     /\ ~w'.hold_timer.active /\ ~w'.render_timer /\ ~w'.anim_timer
                     /\ w'.canvas.current_src = None /\ w'.canvas.next_src = None
             /\ NextRequested
                  => /\ w'.canvas = w.canvas
                     /\ w'.deck = <<>> /\ w'.all_files = <<>> ]_vars

\* F5 was pressed on an empty folder: the asset list was read and found
\* empty, and the presentation did not start
C23_Witness ==
    /\ cmds = 2 /\ now = MaxNow - ShowSpan
    /\ w.settings.image_folder = <<>>
    /\ w.all_files = <<>> /\ w.deck = <<>>
    /\ ~w.running /\ ~w.visible
    /\ ~w.hold_timer.active /\ ~w.render_timer

\* the deck items a step took off: those of the deck (of the asset list when
\* the deck was used up) that the deck no longer holds
Taken ==
    LET queue == IF w.deck = <<>> THEN w'.all_files ELSE w.deck
    IN  IF Len(w'.deck) = Len(queue) - 1 /\ w'.deck = Tail(queue)
        THEN {Head(queue)}
        ELSE IF Len(w'.deck) = Len(w'.all_files) - 1
        THEN {w'.all_files[i] : i \in 1..Len(w'.all_files)}
                 \ {w'.deck[i] : i \in 1..Len(w'.deck)}
        ELSE {}

\* the latest time at which a slide was handed to the canvas
Newest(win) ==
    Max(IF win.canvas.current_src # None THEN win.canvas.current_start ELSE 0 - 1,
        IF win.canvas.next_src # None THEN win.canvas.next_start ELSE 0 - 1)

\* time a presentation needs to get past an undecodable item: a transition
\* under way, the hold that ends with the undecodable item and the hold after
SkipHorizon == 4000
\* the clock's readings that leave that much time
SkipTimes == { t \in 0..(MaxNow - SkipHorizon) : t % TickMs = 0 }

\* C24: an undecodable item never reaches the canvas; the request that meets
\* it takes it off the deck and leaves current, next and progress as they
\* are (F5 leaves the canvas empty), and the presentation goes on: from every
\* instant of a running presentation a decodable item is handed to the
\* canvas at a later instant.
C24_SkipsUndecodable ==
    /\ [][ /\ w'.canvas.current_src \notin Undecodable
           /\ w'.canvas.next_src \notin Undecodable
           /\ (NextRequested /\ Taken # {} /\ Taken \subseteq Undecodable)
                => /\ w'.canvas.current_src = w.canvas.current_src
                   /\ w'.canvas.next_src = w.canvas.next_src
                   /\ w'.canvas.progress = w.canvas.progress
           /\ (NextRequested /\ sorted_images(w.settings.image_folder) # <<>>)
                => Taken # {}
           /\ (~w.running /\ w'.running /\ Taken \subseteq Undecodable)
                => w'.canvas.current_src = None ]_vars
    /\ \A t \in SkipTimes :
         (w.running /\ now = t) ~> (w.running /\ Newest(w) > t)

\* F5 met the undecodable file first and showed nothing; the hold timer's
\* next timeout showed the file after it
C24_Witness ==
    /\ w.running /\ cmds = 1
    /\ w.settings.order = NAME /\ w.settings.transition_ms <= 0
    /\ Head(w.all_files) \in Undecodable
    /\ w.canvas.current_src = w.all_files[2]
    /\ w.deck = Tail(Tail(w.all_files))

----------------------------------------------------------------------------
(* The subtitle track: a presentation with a subtitle file, F5 and T       *)
(* pressed at time 0, under playback-position updates of the audio player  *)
(* (QMediaPlayer.positionChanged, a position in ms from 0 on) between the  *)
(* timer events and at most one Space.                                     *)

Cue(s, e, txt) == [start_ms |-> s, end_ms |-> e, text |-> txt]

\* subtitle files as their blocks in file order: none, one cue, a cue shorter
\* than the fade windows, and overlapping cues out of order
SubtitleFiles ==
    { <<>>,
      <<Cue(1000, 3000, "a")>>,
      <<Cue(1000, 1500, "b")>>,
      <<Cue(2500, 3001, "c"), Cue(1000, 3000, "a"), Cue(1000, 2000, "d")>> }

\* subtitle_fade_in_ms, subtitle_fade_out_ms of the settings
FadeWindows == { <<500, 500>>, <<0 - 5, 500>> }

SubtitleConfigs ==
    { [DefaultSettings EXCEPT !.subtitle_file = f,
                              !.subtitle_fade_in_ms = fd[1],
                              !.subtitle_fade_out_ms = fd[2]] :
        f \in SubtitleFiles, fd \in FadeWindows }

\* positions the player reports
Positions == {0, 1000, 1100, 1250, 1500, 2500, 2750, 3000, 3002}

InitSubtitle ==
    /\ now = 0
    /\ w \in { start_timer_now(start(WindowInit(s, 0, FolderFiles), 0, FolderFiles), 0) :
                 s \in SubtitleConfigs }
    /\ fired = {}
    /\ fade_volume = NoVolume
    /\ timer_cmd = NoTimerCmd
    /\ cmds = 2

\* AudioPlayer.position_ms_changed delivered to canvas.set_subtitle_time_ms
PositionChanged ==
    /\ \E t_ms \in Positions :
         w' = [w EXCEPT !.canvas = set_subtitle_time_ms(@, t_ms)]
    /\ UNCHANGED <<now, fired, fade_volume, timer_cmd, cmds>>

SubtitleCommand == cmds < MaxLiveCmds /\ NextNow

SubtitleNext ==
    \/ AdvanceClock
    \/ SubtitleCommand
    \/ PositionChanged
    \/ OnHoldTimeout
    \/ OnAnimTick
    \/ TickOverlay
    \/ OnFadeoutTick

SubtitleSpec == InitSubtitle /\ [][SubtitleNext]_vars

\* the cues of a list that contain position t_ms, bounds included
Containing(cues, t_ms) ==
    { i \in 1..Len(cues) : cues[i].start_ms <= t_ms /\ t_ms <= cues[i].end_ms }

\* C25: the canvas's cue list is in start-time order, and for every position
\* find_cue returns nothing exactly when no cue contains the position (both
\* bounds inclusive) and otherwise the first containing cue of the list, whose
\* start is the earliest among the cues that contain the position.
C25_ActiveCue ==
    LET cues == w.canvas.subtitle_cues
    IN  /\ \A i, j \in 1..Len(cues) : i < j => cues[i].start_ms <= cues[j].start_ms
        /\ \A t_ms \in Positions :
             LET hit == find_cue(cues, t_ms)
                 inside == Containing(cues, t_ms)
             IN  /\ (inside = {}) <=> (hit = NoCue)
                 /\ inside # {} =>
                      /\ \E i \in inside : hit = cues[i] /\ \A j \in inside : i <= j
                      /\ \A j \in inside : hit.start_ms <= cues[j].start_ms

\* overlapping cues, the position inside two of them: the earlier one is active
C25_Witness ==
    /\ Len(w.canvas.subtitle_cues) = 3
    /\ w.canvas.subtitle_time_ms = 2750
    /\ Cardinality(Containing(w.canvas.subtitle_cues, 2750)) = 2
    /\ find_cue(w.canvas.subtitle_cues, w.canvas.subtitle_time_ms) = Cue(1000, 3000, "a")

\* C26: for every cue of the track and every position inside it the alpha is
\* within [0, 1] and follows the envelope whose fade windows are the configured
\* ones capped at half the cue's duration: (t - start) / fade_in inside the
\* fade-in window, (end - t) / fade_out inside the fade-out window, 1 between
\* them; the cue 1000..3000 with fades of 500 ms has alpha 0 at 1000, 1/2 at
\* 1250, 1 from 1500 to 2500 and 0 at 3000.
C26_AlphaEnvelope ==
    \A t_ms \in Positions :
      LET c == set_subtitle_time_ms(w.canvas, t_ms)
          cues == c.subtitle_cues
      IN  \A i \in Containing(cues, t_ms) :
            LET cue == cues[i]
                alpha == subtitle_alpha_for_cue(c, cue)
                half == (cue.end_ms - cue.start_ms) \div 2
                fi == Min(c.subtitle_fade_in_ms, half)
                fo == Min(c.subtitle_fade_out_ms, half)
            IN  /\ FLeq(Zero, alpha) /\ FLeq(alpha, One)
                /\ t_ms - cue.start_ms < fi =>
                     alpha[1] * fi = (t_ms - cue.start_ms) * alpha[2]
                /\ cue.end_ms - t_ms < fo =>
                     alpha[1] * fo = (cue.end_ms - t_ms) * alpha[2]
                /\ (t_ms - cue.start_ms >= fi /\ cue.end_ms - t_ms >= fo) => alpha = One
                /\ ( /\ cue.start_ms = 1000 /\ cue.end_ms = 3000
                     /\ c.subtitle_fade_in_ms = 500 /\ c.subtitle_fade_out_ms = 500 ) =>
                     /\ t_ms = 1000 => alpha = Zero
                     /\ t_ms = 1250 => alpha = <<1, 2>>
                     /\ (1500 <= t_ms /\ t_ms <= 2500) => alpha = One
                     /\ t_ms = 3000 => alpha = Zero

\* a cue of 500 ms under fade windows of 500 ms: the windows are capped at
\* 250 ms and the alpha at the cue's middle is 1
C26_Witness ==
    /\ w.canvas.subtitle_fade_in_ms = 500 /\ w.canvas.subtitle_fade_out_ms = 500
    /\ w.canvas.subtitle_time_ms = 1250
    /\ w.canvas.subtitle_cues = <<Cue(1000, 1500, "b")>>
    /\ subtitle_alpha_for_cue(w.canvas, w.canvas.subtitle_cues[1]) = One

\* C27: a position update stores the delivered position whatever was stored
\* before (the last of two updates wins, and a position delivered twice leaves
\* the canvas as delivering it once does), and a step that changes the stored
\* position changes nothing else: not the slide timeline, the deck, the
\* countdown, the timers, the audio or the clock.
C27_PositionOverwrite ==
    /\ [](\A t1, t2 \in Positions :
            LET once == set_subtitle_time_ms(w.canvas, t2)
                twice == set_subtitle_time_ms(set_subtitle_time_ms(w.canvas, t1), t2)
            IN  /\ twice = once
                /\ once.subtitle_time_ms = t2
                /\ once = [w.canvas EXCEPT !.subtitle_time_ms = t2])
    /\ [][ w'.canvas.subtitle_time_ms # w.canvas.subtitle_time_ms =>
             /\ w' = [w EXCEPT !.canvas.subtitle_time_ms = w'.canvas.subtitle_time_ms]
             /\ UNCHANGED <<now, fired, fade_volume, timer_cmd, cmds>> ]_vars

\* a position stored while a transition and the countdown's fade are under way
C27_Witness ==
    /\ w.canvas.subtitle_time_ms = 1100
    /\ w.running /\ w.anim_timer /\ w.canvas.next_src # None
    /\ w.canvas.timer_active /\ w.timer_fadeout_started
    /\ cmds = MaxLiveCmds

----------------------------------------------------------------------------
(* The cover cache of the canvas.  The canvas operators above leave the     *)
(* cached covers out; here the canvas record carries its viewport and the   *)
(* covers, and every method is followed by the _refresh_cache call that     *)
(* ends it in the code.  The methods are called in any order and the        *)
(* widget is resized between them.                                          *)

\* pixel sizes <<width, height>> of the image files (file f has the f-th size,
\* cyclically)
ImageSizes == << <<800, 600>>, <<1080, 1920>>, <<1920, 1080>>, <<3, 7>> >>
ImageSize(f) == ImageSizes[((f - 1) % Len(ImageSizes)) + 1]

\* sizes <<width, height>> of the widget; <<0, 0>> before it is laid out
Viewports == { <<0, 0>>, <<1920, 1080>>, <<1080, 1920>>, <<7, 5>>, <<1000, 333>> }

\* current_cover / next_cover = None
NoCover == <<>>

\* (a - b) / 2.0 as a fraction in lowest terms
HalfOf(n) == IF n % 2 = 0 THEN <<n \div 2, 1>> ELSE <<n, 2>>

\* QSize.scaled(w, h, Qt.KeepAspectRatio): the image fitted inside the viewport
qsize_scaled_fit(size, vw, vh) ==
    LET rw == (vh * size[1]) \div size[2]
    IN  IF rw <= vw THEN <<rw, vh>>
        ELSE <<vw, (vw * size[2]) \div size[1]>>

\* QSize.scaled(w, h, Qt.KeepAspectRatioByExpanding), integer division as in
\* Qt; QPixmap.scaled makes either side at least 1
qsize_scaled_expanding(size, vw, vh) ==
    LET rw == (vh * size[1]) \div size[2]
        s == IF rw >= vw THEN <<rw, vh>>
             ELSE <<vw, (vw * size[2]) \div size[1]>>
    IN  <<Max(s[1], 1), Max(s[2], 1)>>

\* TransitionCanvas._make_cover: the cover's size and its offset (ox, oy)
make_cover(c, src) ==
    LET cover == qsize_scaled_expanding(ImageSize(src), c.width, c.height)
    IN  [ cover |-> cover,
          offset |-> <<HalfOf(c.width - cover[1]), HalfOf(c.height - cover[2])>> ]

\* _refresh_cache that leaves the next image's cover as it was
refresh_cache_current_only(c) ==
    LET cur == c.current_src # None /\ c.current_src \notin Undecodable
                 /\ c.width > 0 /\ c.height > 0
    IN  [c EXCEPT !.current_cover = IF cur THEN make_cover(c, c.current_src).cover
                                    ELSE NoCover,
                  !.current_offset = IF cur THEN make_cover(c, c.current_src).offset
                                     ELSE @]

\* TransitionCanvas._refresh_cache
refresh_cache(c) ==
    LET cur == c.current_src # None /\ c.current_src \notin Undecodable
                 /\ c.width > 0 /\ c.height > 0
        nxt == c.next_src # None /\ c.next_src \notin Undecodable
                 /\ c.width > 0 /\ c.height > 0
    IN  [c EXCEPT !.current_cover = IF cur THEN make_cover(c, c.current_src).cover
                                    ELSE NoCover,
                  !.current_offset = IF cur THEN make_cover(c, c.current_src).offset
                                     ELSE @,
                  !.next_cover = IF nxt THEN make_cover(c, c.next_src).cover
                                 ELSE NoCover,
                  !.next_offset = IF nxt THEN make_cover(c, c.next_src).offset
                                  ELSE @]

\* TransitionCanvas.__init__ with the cover cache, in a widget of size vp
CoverCanvasInit(c, vp) ==
    c @@ [ width |-> vp[1], height |-> vp[2],
           current_cover |-> NoCover, next_cover |-> NoCover,
           current_offset |-> <<Zero, Zero>>, next_offset |-> <<Zero, Zero>> ]

InitCover ==
    /\ now = MaxNow
    /\ \E vp \in Viewports :
         w = [WindowInit(DefaultSettings, now, FolderFiles)
                EXCEPT !.canvas = CoverCanvasInit(@, vp)]
    /\ fired = {}
    /\ fade_volume = NoVolume
    /\ timer_cmd = NoTimerCmd
    /\ cmds = 0

CoverSetCurrent ==
    \E pix \in 1..NumFiles : CanvasStep(refresh_cache(set_current(w.canvas, pix, now)))

CoverStartTransition ==
    \E pix \in 1..NumFiles : CanvasStep(refresh_cache(start_transition(w.canvas, pix, now)))

\* set_progress refreshes the cache when it commits (line 314)
CoverSetProgress ==
    \E p \in ProgressInputs :
      LET c == set_progress(w.canvas, p[1], p[2], now)
      IN  CanvasStep(IF w.canvas.next_src # None /\ c.next_src = None
                     THEN refresh_cache(c) ELSE c)

\* clear sets both covers to None (lines 255-256)
CoverClear ==
    CanvasStep([clear(w.canvas) EXCEPT !.current_cover = NoCover, !.next_cover = NoCover])

\* TransitionCanvas.resizeEvent
ResizeEvent ==
    \E vp \in Viewports \ {<<w.canvas.width, w.canvas.height>>} :
      CanvasStep(refresh_cache([w.canvas EXCEPT !.width = vp[1], !.height = vp[2]]))

CoverNext ==
    \/ CoverSetCurrent
    \/ CoverStartTransition
    \/ CoverSetProgress
    \/ CoverClear
    \/ ResizeEvent

CoverSpec == InitCover /\ [][CoverNext]_vars

\* the cover transform asked of an image of size img in a viewport vw x vh:
\* the size scaled by max(vw / iw, vh / ih), in whole pixels, and the offsets
\* that centre it
IsCoverOf(cover, offset, img, vw, vh) ==
    LET byWidth == vw * img[2] >= vh * img[1]      \* vw / iw >= vh / ih
        sn == IF byWidth THEN vw ELSE vh
        sd == IF byWidth THEN img[1] ELSE img[2]
    IN  /\ cover = <<(img[1] * sn) \div sd, (img[2] * sn) \div sd>>
        /\ cover[1] >= vw /\ cover[2] >= vh
        /\ offset[1][1] * 2 = (vw - cover[1]) * offset[1][2]
        /\ offset[2][1] * 2 = (vh - cover[2]) * offset[2][2]
        /\ offset[1][1] <= 0 /\ offset[2][1] <= 0
        /\ (img = <<800, 600>> /\ vw = 1920 /\ vh = 1080) =>
             /\ cover = <<1920, 1440>>
             /\ offset = << <<0, 1>>, <<0 - 180, 1>> >>

\* image and viewport sides no larger than CoverSide
CoverSide == 5

\* C28: in a viewport with both sides positive, the cached cover of the
\* current and of the next image is the image scaled by
\* max(viewport_w / image_w, viewport_h / image_h) (in whole pixels), both
\* sides at least the viewport's, with offset (viewport - cover) / 2 <= 0 on
\* either axis; 800x600 in 1920x1080 gives 1920x1440 at offset (0, -180).  The
\* same holds of _make_cover for every image and viewport of sides 1..CoverSide.
C28_CoverTransform ==
    LET c == w.canvas
    IN  /\ (c.width > 0 /\ c.height > 0 /\ c.current_src # None) =>
             IsCoverOf(c.current_cover, c.current_offset,
                       ImageSize(c.current_src), c.width, c.height)
        /\ (c.width > 0 /\ c.height > 0 /\ c.next_src # None) =>
             IsCoverOf(c.next_cover, c.next_offset,
                       ImageSize(c.next_src), c.width, c.height)
        /\ \A iw, ih, vw, vh \in 1..CoverSide :
             LET cov == qsize_scaled_expanding(<<iw, ih>>, vw, vh)
             IN  IsCoverOf(cov, <<HalfOf(vw - cov[1]), HalfOf(vh - cov[2])>>,
                           <<iw, ih>>, vw, vh)

\* the 800x600 image as the current one of a transition in a 1920x1080 viewport
C28_Witness ==
    /\ w.canvas.width = 1920 /\ w.canvas.height = 1080
    /\ w.canvas.current_src # None /\ ImageSize(w.canvas.current_src) = <<800, 600>>
    /\ w.canvas.current_cover = <<1920, 1440>>
    /\ w.canvas.current_offset = << <<0, 1>>, <<0 - 180, 1>> >>
    /\ w.canvas.next_src # None /\ w.canvas.next_cover # NoCover

----------------------------------------------------------------------------
(* The presentation under configurations whose numbers are out of range.   *)
(* load_settings copies the values of settings.json into AppSettings        *)
(* unchecked, so any integer can arrive at apply_settings.                  *)

\* <<kenburns_strength_percent, hold_ms, transition_ms, music_volume>>
RawNumbers ==
    { <<10, 1000, 1000, 80>>, <<80, 1000, 1000, 80>>, <<10, 0, 1000, 80>>,
      <<10, 1000, 0 - 200, 150>>, <<0 - 10, 1000, 0, 0 - 20>> }

ClampConfigs ==
    { [DefaultSettings EXCEPT !.kenburns = ZOOM_IN,
                              !.kenburns_strength_percent = k[1],
                              !.hold_ms = k[2], !.transition_ms = k[3],
                              !.music_volume = k[4]] : k \in RawNumbers }

InitClamp ==
    /\ now = MaxNow - ShowSpan
    /\ \E s \in ClampConfigs : w = WindowInit(s, now, FolderFiles)
    /\ fired = {}
    /\ fade_volume = NoVolume
    /\ timer_cmd = NoTimerCmd
    /\ cmds = 0

\* a dialog accepted or the settings file read anew: apply_settings
ApplyRaw ==
    /\ cmds < MaxCmds
    /\ \E s \in ClampConfigs \ {w.settings} : w' = apply_settings(w, s, FolderFiles)
    /\ fired' = FiredAfter(w', {})
    /\ cmds' = cmds + 1
    /\ timer_cmd' = NoTimerCmd
    /\ UNCHANGED fade_volume
    /\ UNCHANGED now

ClampNext ==
    \/ AdvanceClock
    \/ ApplyRaw
    \/ StartShow
    \/ NextNow
    \/ OnHoldTimeout
    \/ OnAnimTick
    \/ TickOverlay

ClampSpec == InitClamp /\ [][ClampNext]_vars

\* C29: once a configuration is applied, the canvas's transition and hold
\* durations are at least 0 and 1, its zoom strength lies within 0..50 percent
\* and the player's volume within 0..100; a running hold timer has an interval
\* of at least 1 ms and the zoom scale of the current image is at most 1.5.
C29_ClampedWhenApplied ==
    /\ w.canvas.transition_ms >= 0
    /\ w.canvas.hold_ms >= 1
    /\ w.audio.volume \in 0..100
    /\ w.canvas.ken_strength \in 0..50
    /\ w.hold_timer.active => w.hold_timer.interval >= 1
    /\ w.canvas.current_src # None =>
         FLeq(ken_scale(w.canvas, w.canvas.current_start, now, w.canvas.ken_dir_cur),
              <<3, 2>>)

\* C30: the countdown value is never negative, is 0 while the countdown is
\* inactive or its end has passed, and before the end is the number of seconds
\* nearest to end_ts - now (at most half a second away, the even one of two
\* equally near), not the truncated one; while the countdown stays active
\* with the same end it never increases from one step to the next.
C30_RemainingRounded ==
    /\ [](LET r == timer_remaining_seconds(w.canvas, now)
              left == w.canvas.timer_end_ts - now
          IN  /\ r >= 0
              /\ ~w.canvas.timer_active => r = 0
              /\ (w.canvas.timer_active /\ left <= 0) => r = 0
              /\ (w.canvas.timer_active /\ left > 0) =>
                   /\ 2 * (1000 * r - left) <= 1000
                   /\ 2 * (left - 1000 * r) <= 1000
                   /\ (2 * (left - 1000 * r) = 1000 \/ 2 * (1000 * r - left) = 1000)
                        => r % 2 = 0)
    /\ [][ ( /\ w.canvas.timer_active /\ w'.canvas.timer_active
             /\ w'.canvas.timer_end_ts = w.canvas.timer_end_ts )
           => timer_remaining_seconds(w'.canvas, now')
                <= timer_remaining_seconds(w.canvas, now) ]_vars

\* one and a half seconds left: the value is 2, where truncation gives 1
C30_Witness ==
    /\ w.canvas.timer_active
    /\ w.canvas.timer_end_ts - now = 1500
    /\ timer_remaining_seconds(w.canvas, now) = 2
    /\ (w.canvas.timer_end_ts - now) \div 1000 = 1

\* C31: in every state of the canvas and for every image, set_current leaves
\* the image as current with no next image, progress 1 and current_start equal
\* to the clock; start_transition on a canvas without a current image gives
\* the very canvas set_current gives, and otherwise leaves the image as next,
\* next_start equal to the clock and progress 0, with current and
\* current_start as they were.
C31_SetCurrentStartTransition ==
    \A pix \in 1..NumFiles :
      LET c == w.canvas
          sc == set_current(c, pix, now)
          st == start_transition(c, pix, now)
      IN  /\ sc.current_src = pix /\ sc.next_src = None
          /\ sc.progress = One /\ sc.current_start = now
          /\ c.current_src = None => st = sc
          /\ c.current_src # None =>
               /\ st.next_src = pix /\ st.next_start = now /\ st.progress = Zero
               /\ st.current_src = c.current_src
               /\ st.current_start = c.current_start

\* a transition started after the clock moved on from the current slide's start
C31_Witness ==
    /\ w.canvas.current_src # None /\ w.canvas.next_src # None
    /\ w.canvas.progress = Zero
    /\ w.canvas.next_start = now
    /\ w.canvas.current_start < now

----------------------------------------------------------------------------
(* The presentation with the cover cache: the window's handlers over a     *)
(* canvas that carries its viewport and covers.  A handler that changes    *)
(* the image of a slot does so through set_current, start_transition, the  *)
(* commit of set_progress or clear, each of which ends with the cache      *)
(* refreshed; the render tick paints and runs _tick_overlay.               *)

FrameViewports == { <<0, 0>>, <<1920, 1080>>, <<7, 5>> }

FrameConfigs == { DefaultSettings, [DefaultSettings EXCEPT !.transition_ms = 0] }

InitFrame ==
    /\ now = MaxNow - ShowSpan
    /\ \E s \in FrameConfigs, vp \in FrameViewports :
         w = [WindowInit(s, now, FolderFiles) EXCEPT !.canvas = CoverCanvasInit(@, vp)]
    /\ fired = {}
    /\ fade_volume = NoVolume
    /\ timer_cmd = NoTimerCmd
    /\ cmds = 0

\* the window a handler leaves, its canvas method having refreshed the cache
\* when it changed the image of a slot
recache(win, win2) ==
    IF win2.canvas.current_src # win.canvas.current_src
         \/ win2.canvas.next_src # win.canvas.next_src
    THEN [win2 EXCEPT !.canvas = refresh_cache(@)]
    ELSE win2

FrameStep(win2, me, keys) ==
    /\ w' = recache(w, win2)
    /\ fired' = FiredAfter(w', me)
    /\ cmds' = cmds + keys
    /\ timer_cmd' = NoTimerCmd
    /\ UNCHANGED <<fade_volume, now>>

\* F5 while no presentation runs
FrameStart == ~w.running /\ cmds < MaxLiveCmds /\ FrameStep(start(w, now, FolderFiles), {}, 1)

\* Space
FrameNextNow == cmds < MaxLiveCmds /\ FrameStep(next_now(w, now, FolderFiles), {}, 1)

\* hold_timer.timeout
FrameHoldTimeout ==
    /\ w.hold_timer.active /\ w.hold_timer.due <= now
    /\ FrameStep([on_hold_timeout(w, now, FolderFiles) EXCEPT !.hold_timer = qt_rearm(@, now)],
                 {}, 0)

\* anim_timer.timeout
FrameAnimTick == w.anim_timer /\ FrameStep(on_anim_tick(w, now), {"anim"}, 0)

\* render_timer.timeout: canvas.update (paintEvent assigns no field of the
\* canvas), then _tick_overlay
FrameRenderTick == w.render_timer /\ FrameStep(tick_overlay(w, now), {"render"}, 0)

\* the widget is resized: TransitionCanvas.resizeEvent
FrameResize ==
    /\ cmds < MaxLiveCmds
    /\ \E vp \in FrameViewports \ {<<w.canvas.width, w.canvas.height>>} :
         FrameStep([w EXCEPT !.canvas = refresh_cache([@ EXCEPT !.width = vp[1],
                                                               !.height = vp[2]])],
                   {}, 1)

FrameNext ==
    \/ AdvanceClock
    \/ FrameStart
    \/ FrameNextNow
    \/ FrameHoldTimeout
    \/ FrameAnimTick
    \/ FrameRenderTick
    \/ FrameResize

FrameSpec == InitFrame /\ [][FrameNext]_vars

\* the slide timeline of a canvas, and its cover cache
Timeline(c) ==
    << c.current_src, c.next_src, c.progress, c.current_start, c.next_start,
       c.ken_dir_cur, c.ken_dir_next >>
CoverCache(c) == << c.current_cover, c.current_offset, c.next_cover, c.next_offset >>

\* the cover cached for a slot is the one of the image in the slot
SlotCached(src, cover, offset, vw, vh) ==
    IF src # None /\ vw > 0 /\ vh > 0
    THEN IsCoverOf(cover, offset, ImageSize(src), vw, vh)
    ELSE cover = NoCover

\* C32: the first render tick after the clock advanced (paint, then the overlay
\* tick) leaves the slide timeline, the deck and the cached covers as they
\* were; a step that changes a cached cover changes the image of a slot or the
\* viewport; and in every state either cached cover is the cover of the image
\* in its slot for the viewport at hand (none for an empty slot or viewport).
C32_FramesReuseCovers ==
    /\ [](LET c == w.canvas
          IN  /\ SlotCached(c.current_src, c.current_cover, c.current_offset,
                            c.width, c.height)
              /\ SlotCached(c.next_src, c.next_cover, c.next_offset, c.width, c.height))
    /\ [][ /\ ("render" \in fired' /\ "render" \notin fired) =>
                /\ Timeline(w'.canvas) = Timeline(w.canvas)
                /\ CoverCache(w'.canvas) = CoverCache(w.canvas)
                /\ w'.deck = w.deck /\ w'.all_files = w.all_files
           /\ CoverCache(w'.canvas) # CoverCache(w.canvas) =>
                \/ w'.canvas.current_src # w.canvas.current_src
                \/ w'.canvas.next_src # w.canvas.next_src
                \/ <<w'.canvas.width, w'.canvas.height>> # <<w.canvas.width, w.canvas.height>>
         ]_vars

\* a frame painted during a transition, both covers cached
C32_Witness ==
    /\ "render" \in fired
    /\ w.canvas.next_src # None /\ w.canvas.next_cover # NoCover
    /\ w.canvas.current_cover # NoCover
    /\ FLt(Zero, w.canvas.progress) /\ FLt(w.canvas.progress, One)

\* the windows the four timer handlers leave when their timeouts are delivered
\* to window win at clock reading t, whether or not the timers run
LateTicks(win, t) ==
    { on_hold_timeout(win, t, shuf) : shuf \in Perms(win.all_files) }
      \cup { on_anim_tick(win, t), tick_overlay(win, t), on_fadeout_tick(win, t) }

\* the fade-out left as it is: not begun, and volume, dim and subtitle
\* multiplier unchanged
FadeUntouched(win, win2) ==
    /\ win2.timer_fadeout_started = win.timer_fadeout_started
    /\ win2.fadeout_timer => win.fadeout_timer
    /\ win2.audio.volume = win.audio.volume
    /\ win2.canvas.black_alpha = win.canvas.black_alpha
    /\ win2.canvas.subtitle_alpha_mul = win.canvas.subtitle_alpha_mul

\* C33: in every state in which the presentation is not running, a hold
\* timeout, animation tick, overlay tick or fade tick delivered all the same
\* leaves the deck and both image slots as they are, leaves the hold timer
\* stopped, begins no fade and leaves volume, dim and subtitle multiplier
\* unchanged; in every state in which the countdown is inactive, each of the
\* four begins no fade and leaves volume, dim and subtitle multiplier unchanged.
C33_LateTicksSuppressed ==
    \A x \in LateTicks(w, now) :
      /\ ~w.running =>
           /\ x.deck = w.deck
           /\ x.canvas.current_src = w.canvas.current_src
           /\ x.canvas.next_src = w.canvas.next_src
           /\ ~x.hold_timer.active /\ ~x.running
           /\ FadeUntouched(w, x)
      /\ ~w.canvas.timer_active => FadeUntouched(w, x) /\ ~x.canvas.timer_active

\* Esc pressed while a transition was under way, its duration not yet over
C33_Witness ==
    /\ ~w.running /\ ~w.visible /\ cmds >= 3
    /\ w.anim_start_ts > 0
    /\ now - w.anim_start_ts < w.settings.transition_ms
    /\ w.deck # <<>>

\* C34: in every state the presentation runs exactly when one, and only one,
\* of the hold timer and the animation timer is active; while it does not run
\* the render timer is stopped too; and a pending next image implies an active
\* animation timer.
C34_OneSlideTimer ==
    /\ w.running <=> (w.hold_timer.active \/ w.anim_timer)
    /\ ~(w.hold_timer.active /\ w.anim_timer)
    /\ ~w.running => ~w.render_timer
    /\ w.canvas.next_src # None => w.anim_timer

\* a transition under way: the animation timer runs, the hold timer is stopped
C34_Witness ==
    /\ w.running /\ w.anim_timer /\ ~w.hold_timer.active
    /\ w.canvas.next_src # None /\ w.render_timer
    /\ FLt(Zero, w.canvas.progress)

----------------------------------------------------------------------------
(* The presentation left to advance: a folder whose images all decode, F5   *)
(* and Space pressed at most MaxLiveCmds times in all and not within the    *)
(* last AdvanceHorizon ms of the clock, no Esc/F6 and no countdown.  Qt     *)
(* delivers every timeout of a running timer and time passes: weak          *)
(* fairness of the event loop.                                              *)

\* time a hold period or a transition takes at most, with the clock's step
AdvanceHorizon == 1500
\* the clock's readings that leave that much time
AdvanceTimes ==
    { t \in (MaxNow - ShowSpan)..(MaxNow - AdvanceHorizon) :
        (t - (MaxNow - ShowSpan)) % TickMs = 0 }

AdvanceConfigs ==
    { [DefaultSettings EXCEPT !.order = o, !.transition_ms = tr] :
        o \in {NAME, RANDOM}, tr \in {0, 1000} }

InitAdvance ==
    /\ now = MaxNow - ShowSpan
    /\ \E s \in AdvanceConfigs : \E shuf \in Perms(FolderFiles) : w = WindowInit(s, now, shuf)
    /\ fired = {}
    /\ fade_volume = NoVolume
    /\ timer_cmd = NoTimerCmd
    /\ cmds = 0

AdvanceCommand ==
    /\ cmds < MaxLiveCmds
    /\ now + AdvanceHorizon <= MaxNow
    /\ (StartShow \/ NextNow)

AdvanceNext ==
    \/ AdvanceClock
    \/ AdvanceCommand
    \/ OnHoldTimeout
    \/ OnAnimTick
    \/ TickOverlay

AdvanceSpec ==
    /\ InitAdvance
    /\ [][AdvanceNext]_vars
    /\ WF_vars(EventLoop)

\* C35: the presentation, once running, keeps running; from every instant at
\* which the hold timer runs the presentation comes to a transition under way
\* or to a slide handed to the canvas at a later instant (the current image
\* set when the transition duration is 0); and from every instant at which a
\* transition is under way the canvas comes to hold no next image with the
\* hold timer running again and the animation timer stopped.
C35_KeepsAdvancing ==
    /\ [][w.running => w'.running]_vars
    /\ \A t \in AdvanceTimes :
         /\ (w.running /\ w.hold_timer.active /\ now = t)
              ~> (w.running /\ (w.anim_timer \/ Newest(w) > t))
         /\ (w.running /\ w.anim_timer /\ w.canvas.next_src # None /\ now = t)
              ~> ( /\ w.running /\ w.canvas.next_src = None
                   /\ w.hold_timer.active /\ ~w.anim_timer )

\* the hold timer re-armed by the commit of a transition that a hold timeout
\* started
C35_Witness ==
    /\ w.running /\ cmds = 1
    /\ w.settings.transition_ms > 0
    /\ w.canvas.next_src = None /\ w.canvas.progress = One
    /\ w.hold_timer.active /\ ~w.anim_timer
    /\ w.hold_timer.due = now + w.settings.hold_ms
    /\ w.canvas.current_start > MaxNow - ShowSpan

\* C36: in every reachable state an active countdown implies a running
\* presentation and a started fade-out implies an active countdown; a
\* countdown becomes active or gets a new end only by a T press in a running
\* presentation, and every step that ends the running state or deactivates
\* the countdown leaves the fade-out flag cleared.
C36_FadeWithinCountdownWithinShow ==
    /\ []( /\ (w.canvas.timer_active => w.running)
           /\ (w.timer_fadeout_started => w.canvas.timer_active) )
    /\ [][ /\ ( /\ w'.canvas.timer_active
                /\ (~w.canvas.timer_active
                      \/ w'.canvas.timer_end_ts # w.canvas.timer_end_ts) )
              => (StartTimerNow /\ w.running)
           /\ ( \/ (w.running /\ ~w'.running)
                \/ (w.canvas.timer_active /\ ~w'.canvas.timer_active) )
              => ~w'.timer_fadeout_started ]_vars

\* the presentation stopped by Esc in the middle of a fade-out
C36_Witness ==
    /\ ~w.running /\ ~w.canvas.timer_active /\ ~w.timer_fadeout_started
    /\ fade_volume > 0 /\ fade_volume < w.settings.music_volume
    /\ w.audio.volume = w.settings.music_volume

\* C37: in every reachable state the dim alpha and the subtitle alpha
\* multiplier both lie in [0, 1] and sum to 1, and both are at rest (dim 0,
\* multiplier 1) whenever no fade-out has started, in particular once the
\* fade-out has ended the presentation.
C37_DimAndSubtitleComplement ==
    LET dim == w.canvas.black_alpha
        mul == w.canvas.subtitle_alpha_mul
    IN  /\ FLeq(Zero, dim) /\ FLeq(dim, One)
        /\ FLeq(Zero, mul) /\ FLeq(mul, One)
        /\ FAdd(dim, mul) = One
        /\ ~w.timer_fadeout_started => (dim = Zero /\ mul = One)
        /\ FadeTerminated => (~w.timer_fadeout_started /\ dim = Zero /\ mul = One)

\* a fade-out part of the way: the picture partly dimmed, the subtitles
\* partly transparent
C37_Witness ==
    /\ w.running /\ w.timer_fadeout_started
    /\ FLt(Zero, w.canvas.black_alpha) /\ FLt(w.canvas.black_alpha, One)
    /\ FLt(Zero, w.canvas.subtitle_alpha_mul) /\ FLt(w.canvas.subtitle_alpha_mul, One)
    /\ "fadeout" \in fired

(***************************************************************************)
(* Several output windows: MultiDisplaySlideShow keeps one SlideShowWindow *)
(* per selected display, hands the music files to the primary one only and *)
(* subscribes every secondary canvas to the primary's playback position.   *)
(* In MultiSpec the variable w holds the MultiDisplaySlideShow object.     *)
(***************************************************************************)

\* QGuiApplication.screens(): the displays attached, numbered from 0
NumScreens == 3
Screens == 0..(NumScreens - 1)

\* no connection between any position stream and any canvas of another window
NoSubscriptions == [c \in Screens \X Screens |-> 0]

\* MultiDisplaySlideShow._normalized_indices: each index clamped to the
\* screens, duplicates dropped, the first one kept; [display_index] for an
\* empty selection
normalized_indices(m) ==
    LET raw == IF m.display_indices = <<>> THEN <<m.display_index>> ELSE m.display_indices
        out[k \in 0..Len(raw)] ==
            IF k = 0 THEN <<>>
            ELSE LET i == Max(0, Min(raw[k], NumScreens - 1))
                 IN  IF \E j \in 1..Len(out[k - 1]) : out[k - 1][j] = i
                     THEN out[k - 1]
                     ELSE Append(out[k - 1], i)
    IN  IF NumScreens = 0 \/ out[Len(raw)] = <<>> THEN <<0>> ELSE out[Len(raw)]

\* MultiDisplaySlideShow._settings_for_window
settings_for_window(m, idx, primary) ==
    IF primary THEN m.settings ELSE [m.settings EXCEPT !.music_files = <<>>]

\* MultiDisplaySlideShow._wire_subtitle_sync: for every secondary, disconnect
\* (every connection of the pair, none being no error) and connect once
wire_subtitle_sync(m, indices) ==
    [m EXCEPT !.subscriptions =
        [c \in Screens \X Screens |->
            IF c[1] = indices[1] /\ \E k \in 2..Len(indices) : c[2] = indices[k]
            THEN 1
            ELSE @[c]]]

\* MultiDisplaySlideShow._rebuild_windows; a window taken out of the
\* selection is stopped and destroyed, and Qt drops the connections of a
\* destroyed object
rebuild_windows(m, t) ==
    LET indices == normalized_indices(m)
        keep == { indices[k] : k \in 1..Len(indices) }
        m1 == [m EXCEPT !.display_indices = indices,
                        !.display_index = indices[1],
                        !.primary_index = indices[1]]
        s_for(idx) == settings_for_window(m1, idx, idx = m1.primary_index)
        made(idx) == IF idx \in DOMAIN m.windows
                     THEN m.windows[idx]
                     ELSE WindowInit(s_for(idx), t, FolderFiles)
        m2 == [m1 EXCEPT !.windows = [idx \in keep |->
                                         apply_settings(made(idx), s_for(idx), FolderFiles)],
                         !.subscriptions = [c \in Screens \X Screens |->
                                               IF c[1] \in keep /\ c[2] \in keep
                                               THEN @[c] ELSE 0]]
    IN  wire_subtitle_sync(m2, indices)

\* MultiDisplaySlideShow.set_display_indices
set_display_indices(m, indices, t) ==
    rebuild_windows([m EXCEPT !.display_indices = indices,
                              !.display_index = IF indices # <<>> THEN indices[1] ELSE @], t)

\* MultiDisplaySlideShow.apply_settings
multi_apply_settings(m, s, t) == rebuild_windows([m EXCEPT !.settings = s], t)

\* MultiDisplaySlideShow.start
multi_start(m, t) ==
    LET m1 == rebuild_windows(m, t)
    IN  [m1 EXCEPT !.windows = [idx \in DOMAIN @ |-> start(@[idx], t, FolderFiles)]]

\* MultiDisplaySlideShow.stop
multi_stop(m) == [m EXCEPT !.windows = [idx \in DOMAIN @ |-> stop(@[idx])]]

\* MultiDisplaySlideShow.__init__ with the AppSettings defaults
\* (display_index 1, no display_indices)
MultiInit(s, t) ==
    rebuild_windows([ settings |-> s, display_indices |-> <<>>, display_index |-> 1,
                      windows |-> <<>>, primary_index |-> 0,
                      subscriptions |-> NoSubscriptions ], t)

\* DisplaySelectDialog.selected_indices: the checked displays in ascending
\* order, display 0 when none is checked
selected_indices(checked) ==
    LET asc[S \in SUBSET Screens] ==
            IF S = {} THEN <<>>
            ELSE LET lo == CHOOSE i \in S : \A j \in S : i <= j
                 IN  <<lo>> \o asc[S \ {lo}]
    IN  IF checked = {} THEN <<0>> ELSE asc[checked]

\* the playback positions the players report
MultiPositions == {1000, 2000}

\* the music selections of the media settings dialog
MultiConfigs == { [DefaultSettings EXCEPT !.music_files = mf] : mf \in {<<>>, <<1>>} }

InitMulti ==
    /\ now = 0
    /\ w = MultiInit(DefaultSettings, 0)
    /\ fired = {}
    /\ fade_volume = NoVolume
    /\ timer_cmd = NoTimerCmd
    /\ cmds = 0

\* MainWindow.open_display_selector accepted
SelectDisplays ==
    /\ cmds < MaxCmds
    /\ \E checked \in SUBSET Screens :
         w' = set_display_indices(w, selected_indices(checked), now)
    /\ cmds' = cmds + 1
    /\ UNCHANGED <<now, fired, fade_volume, timer_cmd>>

\* MainWindow.start_show (F5)
MultiStart ==
    /\ cmds < MaxCmds
    /\ w' = multi_start(w, now)
    /\ cmds' = cmds + 1
    /\ UNCHANGED <<now, fired, fade_volume, timer_cmd>>

\* MainWindow.stop_show (F6)
MultiStop ==
    /\ cmds < MaxCmds
    /\ w' = multi_stop(w)
    /\ cmds' = cmds + 1
    /\ UNCHANGED <<now, fired, fade_volume, timer_cmd>>

\* MainWindow.open_media_settings accepted
MultiApplySettings ==
    /\ cmds < MaxCmds
    /\ \E s \in MultiConfigs : w' = multi_apply_settings(w, s, now)
    /\ cmds' = cmds + 1
    /\ UNCHANGED <<now, fired, fade_volume, timer_cmd>>

\* a playing AudioPlayer emits position_ms_changed: the window's own canvas
\* and every canvas connected to the stream take the position, once per
\* connection
EmitPosition ==
    /\ \E src \in DOMAIN w.windows : \E t_ms \in MultiPositions :
         /\ w.windows[src].audio.playing
         /\ w' = [w EXCEPT !.windows =
                     [d \in DOMAIN @ |->
                        IF d = src \/ w.subscriptions[<<src, d>>] > 0
                        THEN [@[d] EXCEPT !.canvas = set_subtitle_time_ms(@, t_ms)]
                        ELSE @[d]]]
    /\ UNCHANGED <<now, fired, fade_volume, timer_cmd, cmds>>

\* AudioPlayer._on_status at EndOfMedia: the next track of the playlist is
\* played, nothing more is played when the playlist is empty
EndOfMedia ==
    /\ \E src \in DOMAIN w.windows :
         /\ w.windows[src].audio.playing
         /\ w' = [w EXCEPT !.windows[src].audio.playing =
                     Len(w.windows[src].settings.music_files) > 0]
    /\ UNCHANGED <<now, fired, fade_volume, timer_cmd, cmds>>

MultiNext ==
    \/ SelectDisplays
    \/ MultiStart
    \/ MultiStop
    \/ MultiApplySettings
    \/ EmitPosition
    \/ EndOfMedia

MultiSpec == InitMulti /\ [][MultiNext]_vars

\* the windows of the selection after the first
Secondaries(m) == { m.display_indices[k] : k \in 2..Len(m.display_indices) }

\* C38: with several output windows, at any time at most one window plays
\* audio, whatever the sequence of start, stop, settings and display
\* selection, a change of the primary display in a running presentation
\* included.
C38_OnlyPrimaryPlays ==
    Cardinality({ i \in DOMAIN w.windows : w.windows[i].audio.playing }) <= 1

\* C39: after any sequence of window rebuilds every secondary window's
\* canvas is connected exactly once to the playback-position stream of the
\* current primary window and to the stream of no other window.
C39_SubscribedToPrimaryOnly ==
    \A d \in Secondaries(w) : \A src \in Screens \ {d} :
        w.subscriptions[<<src, d>>] = IF src = w.primary_index THEN 1 ELSE 0

----------------------------------------------------------------------------
(* The frames of a presentation with a countdown that fades out, with and   *)
(* without subtitles, for every transition kind, over a folder of images   *)
(* and over one whose only file cannot be decoded.                          *)

PaintConfigs ==
    { [DefaultSettings EXCEPT !.transition_type = k, !.subtitle_file = f,
                              !.image_folder = d] :
        k \in {FADE, SWEEP, OTHER_KIND},
        f \in { <<>>, <<Cue(1000, 3000, "a")>> },
        d \in { ListImages, <<BadFile>> } }

\* the position the player reports
PaintPositions == {2000}

\* widths of the viewport the frames are painted for, the empty one included
PaintWidths == ViewportWidths \cup {0}

InitPaint ==
    /\ now = 0
    /\ w \in { start_timer_now(start(WindowInit(s, 0, sorted_images(s.image_folder)), 0,
                                     sorted_images(s.image_folder)), 0) :
                 s \in PaintConfigs }
    /\ fired = {}
    /\ fade_volume = NoVolume
    /\ timer_cmd = NoTimerCmd
    /\ cmds = 2

PaintPositionChanged ==
    /\ \E t_ms \in PaintPositions :
         w' = [w EXCEPT !.canvas = set_subtitle_time_ms(@, t_ms)]
    /\ UNCHANGED <<now, fired, fade_volume, timer_cmd, cmds>>

PaintCommand == cmds < MaxLiveCmds /\ NextNow

PaintNext ==
    \/ AdvanceClock
    \/ PaintCommand
    \/ PaintPositionChanged
    \/ OnHoldTimeout
    \/ OnAnimTick
    \/ TickOverlay
    \/ OnFadeoutTick

PaintSpec == InitPaint /\ [][PaintNext]_vars

\* the layer a draw operation belongs to, bottom to top
LayerRank(op) ==
    IF op[1] = "cover" THEN 1
    ELSE IF op[1] = "timer" THEN 2
    ELSE IF op[1] = "subtitle" THEN 3
    ELSE 4

\* C40: in every frame, whichever paint path is taken, the draw operations
\* come in the order image layers, countdown text, subtitle overlay, black
\* dim layer; when dim alpha > 0 the frame ends with exactly one dim layer of
\* that alpha, above every image, the countdown text and the subtitles, and
\* when dim alpha is 0 no dim layer is drawn.
C40_PaintOrder ==
    \A vw \in PaintWidths :
        LET f == paintEvent(w.canvas, now, vw)
            dims == { k \in 1..Len(f) : f[k][1] = "dim" }
        IN  /\ \A i, j \in 1..Len(f) : i < j => LayerRank(f[i]) <= LayerRank(f[j])
            /\ FLt(Zero, w.canvas.black_alpha)
                 => dims = {Len(f)} /\ f[Len(f)] = <<"dim", w.canvas.black_alpha>>
            /\ w.canvas.black_alpha = Zero => dims = {}
            /\ (\E k \in 1..Len(f) : f[k][1] = "timer") <=> (w.canvas.timer_active /\ vw > 0)
            /\ (\E k \in 1..Len(f) : f[k][1] = "subtitle") <=> (w.canvas.subtitle_cues # <<>>)
            /\ Cardinality({ k \in 1..Len(f) : f[k][1] = "cover" })
                 = IF w.canvas.current_src = None \/ vw <= 0 THEN 0
                   ELSE IF w.canvas.next_src = None THEN 1 ELSE 2

\* a frame in the middle of a transition and of the fade-out, with the
\* countdown text and a subtitle cue on it
C40_Witness ==
    /\ w.canvas.current_src # None /\ w.canvas.next_src # None
    /\ w.canvas.timer_active
    /\ FLt(Zero, w.canvas.black_alpha) /\ FLt(w.canvas.black_alpha, One)
    /\ find_cue(w.canvas.subtitle_cues, w.canvas.subtitle_time_ms) # NoCue
    /\ Len(paintEvent(w.canvas, now, 1920)) = 6

====
